---- MODULE Spec2Model ----
(***************************************************************************)
(* Model of the wedding sizing backend of suitsize-frontend:               *)
(*   src/backend/wedding_group_coordination.py  (WeddingGroup,             *)
(*                                               GroupConsistencyAnalyzer) *)
(*   src/backend/wedding_sizing_engine.py       (WeddingSizingEngine)      *)
(*   src/backend/ml_enhanced_sizing_engine.py   (EnhancedConfidenceScorer, *)
(*                          AnthropometricValidator, EnhancedSuitSizeEngine) *)
(*   src/backend/ml_railway_backend.py          (MLEnhancedRailwayBackend) *)
(*                                                                         *)
(* Numbers.  Heights and weights are exact rationals [n, d] in lowest      *)
(* terms; the role multipliers (0.98, 0.99, 1.0, 1.02) and the unit        *)
(* factors (2.54, 0.453592) are the exact decimal fractions the source     *)
(* writes.  Confidences are integers counting hundredths (0.85 is 85).     *)
(* Size strings are sequences of one-character strings, so slicing,        *)
(* int() and f-string formatting are modelled by what they do.             *)
(***************************************************************************)
EXTENDS Integers, Sequences, FiniteSets, TLC

\* Python None in a field that otherwise holds a member object.
NoMember == [id |-> "None", role |-> "None"]

\* ---------------------------------------------------------------------
\* Enumerations (wedding_sizing_engine.py)
\* ---------------------------------------------------------------------
WeddingRole ==
    {"groom", "groomsman", "best_man", "father_of_bride", "father_of_groom",
     "usher", "ring_bearer", "guests"}

WeddingStyle ==
    {"formal", "semi_formal", "casual", "black_tie", "beach", "outdoor",
     "vintage", "modern"}

\* ---------------------------------------------------------------------
\* Exact rational arithmetic
\* ---------------------------------------------------------------------
RECURSIVE Gcd(_, _)
Gcd(a, b) == IF b = 0 THEN a ELSE Gcd(b, a % b)

\* The rational n/d in lowest terms (n >= 0, d > 0).
Rat(n, d) == LET g == Gcd(n, d) IN [n |-> n \div g, d |-> d \div g]

\* a * b, cross-reduced before multiplying so that the result is in lowest
\* terms and no intermediate product is larger than the result's parts.
RMul(a, b) ==
    LET g1 == Gcd(a.n, b.d)
        g2 == Gcd(b.n, a.d)
    IN  [n |-> (a.n \div g1) * (b.n \div g2), d |-> (a.d \div g2) * (b.d \div g1)]

\* a / b for b > 0
RDiv(a, b) == RMul(a, [n |-> b.d, d |-> b.n])

\* a/b < c/d for a, c >= 0 and b, d > 0, by comparing the continued-fraction
\* expansions (no product is formed, so no operand outgrows its inputs).
RECURSIVE FracLess(_, _, _, _)
FracLess(a, b, c, d) ==
    LET qa == a \div b
        qc == c \div d
        ra == a % b
        rc == c % d
    IN  IF qa # qc THEN qa < qc
        ELSE IF rc = 0 THEN FALSE
        ELSE IF ra = 0 THEN TRUE
        ELSE FracLess(d, rc, b, ra)

RLess(a, b) == FracLess(a.n, a.d, b.n, b.d)
RLeq(a, b) == ~RLess(b, a)

\* ---------------------------------------------------------------------
\* Python strings of digits and letters, as sequences of characters
\* ---------------------------------------------------------------------
DigitChars == <<"0", "1", "2", "3", "4", "5", "6", "7", "8", "9">>

IsDigitChar(c) == \E i \in 1..10 : DigitChars[i] = c

DigitValue(c) == (CHOOSE i \in 1..10 : DigitChars[i] = c) - 1

\* str.isdigit(): non-empty and every character a digit
isdigit(s) == Len(s) > 0 /\ \A i \in 1..Len(s) : IsDigitChar(s[i])

\* int(s) for a string of digits
RECURSIVE int(_)
int(s) ==
    IF Len(s) = 0 THEN 0
    ELSE 10 * int(SubSeq(s, 1, Len(s) - 1)) + DigitValue(s[Len(s)])

\* str(n) / f"{n}" for n >= 0
RECURSIVE str(_)
str(n) ==
    IF n < 10 THEN <<DigitChars[n + 1]>>
    ELSE str(n \div 10) \o <<DigitChars[(n % 10) + 1]>>

\* s[:-1] and s[:2] and s[-1]
AllButLast(s) == SubSeq(s, 1, Len(s) - 1)
FirstTwo(s) == SubSeq(s, 1, IF Len(s) < 2 THEN Len(s) ELSE 2)
LastChar(s) == s[Len(s)]

\* =====================================================================
\* WeddingSizingEngine (wedding_sizing_engine.py): tables and pure helpers
\* =====================================================================

\* self.role_adjustments: no entry for ring_bearer.  style_flexibility and
\* confidence_boost in hundredths.
role_adjustments ==
    [r \in WeddingRole \ {"ring_bearer"} |->
        CASE r = "groom" ->
                [base_multiplier |-> Rat(100, 100), confidence_boost |-> 10,
                 style_flexibility |-> 90, consistency_priority |-> "high"]
          [] r = "best_man" ->
                [base_multiplier |-> Rat(100, 100), confidence_boost |-> 5,
                 style_flexibility |-> 95, consistency_priority |-> "high"]
          [] r = "groomsman" ->
                [base_multiplier |-> Rat(98, 100), confidence_boost |-> 0,
                 style_flexibility |-> 100, consistency_priority |-> "high"]
          [] r \in {"father_of_bride", "father_of_groom"} ->
                [base_multiplier |-> Rat(102, 100), confidence_boost |-> 5,
                 style_flexibility |-> 110, consistency_priority |-> "medium"]
          [] r = "usher" ->
                [base_multiplier |-> Rat(99, 100), confidence_boost |-> 0,
                 style_flexibility |-> 100, consistency_priority |-> "medium"]
          [] r = "guests" ->
                [base_multiplier |-> Rat(100, 100), confidence_boost |-> 0,
                 style_flexibility |-> 100, consistency_priority |-> "low"]]

\* self.style_impacts: entries for five of the eight styles only.
style_impacts ==
    [s \in {"formal", "black_tie", "casual", "beach", "outdoor"} |->
        CASE s = "formal" -> [fit_preference_shift |-> "regular", confidence_boost |-> 5]
          [] s = "black_tie" -> [fit_preference_shift |-> "slim", confidence_boost |-> 10]
          [] s = "casual" -> [fit_preference_shift |-> "relaxed", confidence_boost |-> 0]
          [] s = "beach" -> [fit_preference_shift |-> "relaxed", confidence_boost |-> 5]
          [] s = "outdoor" -> [fit_preference_shift |-> "relaxed", confidence_boost |-> 0]]

\* style_config.get('fit_preference_shift', default) and
\* style_config.get('confidence_boost', 0) with style_config =
\* self.style_impacts.get(wedding.style, {})
style_fit_preference_shift(style, default) ==
    IF style \in DOMAIN style_impacts
    THEN style_impacts[style].fit_preference_shift ELSE default

style_confidence_boost(style) ==
    IF style \in DOMAIN style_impacts
    THEN style_impacts[style].confidence_boost ELSE 0

\* abs(x) on hundredths
abs(x) == IF x < 0 THEN 0 - x ELSE x

\* _adjust_fit_preference; `draw` is the value of random.random(), in
\* hundredths, and flexibility is in hundredths.
_adjust_fit_preference(original_fit, style_bias, flexibility, draw) ==
    IF original_fit = style_bias THEN original_fit
    ELSE LET adjustment_probability == abs(100 - flexibility)
         IN  IF draw < adjustment_probability THEN style_bias ELSE original_fit

\* Unit normalisation at the top of _get_base_recommendation
to_height_cm(height, unit) ==
    IF unit = "metric" THEN height ELSE RMul(height, Rat(254, 100))

to_weight_kg(weight, unit) ==
    IF unit = "metric" THEN weight ELSE RMul(weight, Rat(453592, 1000000))

\* height / 100 with the division left out (the height in centimetres).
height_m_unscaled(height) == height

\* height / 100
height_m(height) == RDiv(height, Rat(100, 1))

\* weight / (height / 100)
height_weight_ratio(height, weight) == RDiv(weight, height_m(height))

\* bmi < k and bmi > k for bmi = weight / (height / 100) ** 2.  The quotient
\* itself need not fit the integers of the checker, so the comparison is
\* made on weight / (height/100) against k * (height/100), which is the
\* same comparison because height/100 is positive.
bmi_less(height, weight, k) ==
    RLess(height_weight_ratio(height, weight), RMul(k, height_m(height)))

bmi_greater(height, weight, k) ==
    RLess(RMul(k, height_m(height)), height_weight_ratio(height, weight))

\* _classify_body_type with the first two tests exchanged.
_classify_body_type_ratio_first(height, weight) ==
    LET ratio == height_weight_ratio(height, weight)
    IN  IF RLess(Rat(110, 100), ratio) THEN "Athletic"
        ELSE IF RLess(ratio, Rat(85, 100)) THEN "Slender"
        ELSE IF bmi_less(height, weight, Rat(185, 10)) THEN "Slim"
        ELSE IF bmi_greater(height, weight, Rat(30, 1)) THEN "Broad"
        ELSE "Regular"

\* _classify_body_type
_classify_body_type(height, weight) ==
    LET ratio == height_weight_ratio(height, weight)
    IN  IF bmi_less(height, weight, Rat(185, 10)) THEN "Slim"
        ELSE IF bmi_greater(height, weight, Rat(30, 1)) THEN "Broad"
        ELSE IF RLess(Rat(110, 100), ratio) THEN "Athletic"
        ELSE IF RLess(ratio, Rat(85, 100)) THEN "Slender"
        ELSE "Regular"

\* weight_kg / (height_m ** 2), as validate_measurements computes it
bmi_of(height_cm, weight_kg) ==
    RDiv(weight_kg, RMul(height_m(height_cm), height_m(height_cm)))

\* AnthropometricValidator._classify_body_type (ml_enhanced_sizing_engine.py)
AnthropometricValidator_classify_body_type(height_cm, weight_kg, bmi) ==
    LET ratio == RDiv(weight_kg, RDiv(height_cm, Rat(100, 1)))
    IN  IF RLess(bmi, Rat(185, 10)) THEN "Slim"
        ELSE IF RLess(Rat(30, 1), bmi) THEN "Broad"
        ELSE IF RLess(Rat(110, 100), ratio) THEN "Athletic"
        ELSE IF RLess(ratio, Rat(85, 100)) THEN "Slender"
        ELSE IF RLeq(Rat(25, 1), bmi) /\ RLess(bmi, Rat(30, 1)) THEN "Overweight"
        ELSE "Regular"

\* AnthropometricValidator.validate_measurements (the fields read later)
validate_measurements(height, weight, unit) ==
    LET height_cm == IF unit = "imperial" THEN RMul(height, Rat(254, 100)) ELSE height
        weight_kg == IF unit = "imperial" THEN RMul(weight, Rat(453592, 1000000))
                     ELSE weight
        bmi == bmi_of(height_cm, weight_kg)
    IN  [height_cm |-> height_cm,
         weight_kg |-> weight_kg,
         bmi |-> bmi,
         body_type |-> AnthropometricValidator_classify_body_type(height_cm, weight_kg, bmi)]

\* _get_confidence_level (confidence in hundredths)
_get_confidence_level(confidence) ==
    IF confidence >= 90 THEN "Very High"
    ELSE IF confidence >= 80 THEN "High"
    ELSE IF confidence >= 70 THEN "Medium"
    ELSE IF confidence >= 60 THEN "Low"
    ELSE "Very Low"

\* EnhancedConfidenceScorer.get_confidence_level (ml_enhanced_sizing_engine.py)
get_confidence_level(confidence) ==
    IF confidence >= 85 THEN "Very High"
    ELSE IF confidence >= 75 THEN "High"
    ELSE IF confidence >= 65 THEN "Medium"
    ELSE IF confidence >= 55 THEN "Low"
    ELSE "Very Low"

\* min(a, b) on hundredths
min(a, b) == IF a < b THEN a ELSE b

\* _calculate_wedding_confidence taking 0.2 instead of 0.1 for challenging
\* measurements
_calculate_wedding_confidence_less_20(height, weight, fit, size) ==
    LET typical == /\ RLeq(Rat(170, 1), height) /\ RLeq(height, Rat(190, 1))
                   /\ RLeq(Rat(65, 1), weight) /\ RLeq(weight, Rat(95, 1))
        challenging == \/ RLess(height, Rat(160, 1)) \/ RLess(Rat(200, 1), height)
                       \/ RLess(weight, Rat(50, 1)) \/ RLess(Rat(120, 1), weight)
        base_confidence == 85 + (IF typical THEN 10 ELSE IF challenging THEN -20 ELSE 0)
    IN  min(100, base_confidence + (IF fit = "regular" THEN 5 ELSE 0))

\* _calculate_wedding_confidence (hundredths)
_calculate_wedding_confidence(height, weight, fit, size) ==
    LET typical == /\ RLeq(Rat(170, 1), height) /\ RLeq(height, Rat(190, 1))
                   /\ RLeq(Rat(65, 1), weight) /\ RLeq(weight, Rat(95, 1))
        challenging == \/ RLess(height, Rat(160, 1)) \/ RLess(Rat(200, 1), height)
                       \/ RLess(weight, Rat(50, 1)) \/ RLess(Rat(120, 1), weight)
        base_confidence == 85 + (IF typical THEN 10 ELSE IF challenging THEN -10 ELSE 0)
    IN  min(100, base_confidence + (IF fit = "regular" THEN 5 ELSE 0))

\* _calculate_wedding_alterations: the list of tags, in generation order
_calculate_wedding_alterations(height, weight, fit, size) ==
    LET body_type == _classify_body_type(height, weight)
        numeric_size == int(FirstTwo(size))
    IN  (CASE body_type = "Athletic" -> <<"Shoulder_width_adjustment", "Chest_room_optimization">>
           [] body_type = "Broad" -> <<"Waist_accommodation", "Comfortable_movement">>
           [] body_type = "Slim" -> <<"Tailored_fit", "Professional_appearance">>
           [] OTHER -> << >>)
        \o (CASE fit = "slim" -> <<"Slim_fit_optimization">>
              [] fit = "relaxed" -> <<"Relaxed_fit_comfort">>
              [] OTHER -> << >>)
        \o (IF numeric_size < 40 THEN <<"Petite_sizing_accommodations">>
            ELSE IF numeric_size > 50 THEN <<"Plus_size_accommodations">>
            ELSE << >>)

\* The ladders with every test `ratio < t` written `ratio <= t`, so that a
\* ratio equal to a threshold stays on the rung below it.
ladder_size_ties_low(fit, ratio) ==
    IF fit = "slim" THEN
        (IF RLeq(ratio, Rat(80, 100)) THEN <<"3", "8">>
         ELSE IF RLeq(ratio, Rat(90, 100)) THEN <<"4", "0">>
         ELSE IF RLeq(ratio, Rat(100, 100)) THEN <<"4", "2">>
         ELSE IF RLeq(ratio, Rat(110, 100)) THEN <<"4", "4">>
         ELSE <<"4", "6">>) \o <<"S">>
    ELSE IF fit = "relaxed" THEN
        (IF RLeq(ratio, Rat(70, 100)) THEN <<"4", "0">>
         ELSE IF RLeq(ratio, Rat(80, 100)) THEN <<"4", "2">>
         ELSE IF RLeq(ratio, Rat(90, 100)) THEN <<"4", "4">>
         ELSE IF RLeq(ratio, Rat(100, 100)) THEN <<"4", "6">>
         ELSE IF RLeq(ratio, Rat(110, 100)) THEN <<"4", "8">>
         ELSE <<"5", "0">>) \o <<"R">>
    ELSE
        (IF RLeq(ratio, Rat(75, 100)) THEN <<"3", "8">>
         ELSE IF RLeq(ratio, Rat(85, 100)) THEN <<"4", "0">>
         ELSE IF RLeq(ratio, Rat(95, 100)) THEN <<"4", "2">>
         ELSE IF RLeq(ratio, Rat(105, 100)) THEN <<"4", "4">>
         ELSE IF RLeq(ratio, Rat(115, 100)) THEN <<"4", "6">>
         ELSE IF RLeq(ratio, Rat(125, 100)) THEN <<"4", "8">>
         ELSE <<"5", "0">>) \o <<"R">>

\* The ladders with the regular ladder's 0.95 rung tested before its 0.85
\* rung, so that the 40 rung is never taken.
ladder_size_rung_slip(fit, ratio) ==
    IF fit = "slim" THEN
        (IF RLess(ratio, Rat(80, 100)) THEN <<"3", "8">>
         ELSE IF RLess(ratio, Rat(90, 100)) THEN <<"4", "0">>
         ELSE IF RLess(ratio, Rat(100, 100)) THEN <<"4", "2">>
         ELSE IF RLess(ratio, Rat(110, 100)) THEN <<"4", "4">>
         ELSE <<"4", "6">>) \o <<"S">>
    ELSE IF fit = "relaxed" THEN
        (IF RLess(ratio, Rat(70, 100)) THEN <<"4", "0">>
         ELSE IF RLess(ratio, Rat(80, 100)) THEN <<"4", "2">>
         ELSE IF RLess(ratio, Rat(90, 100)) THEN <<"4", "4">>
         ELSE IF RLess(ratio, Rat(100, 100)) THEN <<"4", "6">>
         ELSE IF RLess(ratio, Rat(110, 100)) THEN <<"4", "8">>
         ELSE <<"5", "0">>) \o <<"R">>
    ELSE
        (IF RLess(ratio, Rat(75, 100)) THEN <<"3", "8">>
         ELSE IF RLess(ratio, Rat(95, 100)) THEN <<"4", "2">>
         ELSE IF RLess(ratio, Rat(85, 100)) THEN <<"4", "0">>
         ELSE IF RLess(ratio, Rat(105, 100)) THEN <<"4", "4">>
         ELSE IF RLess(ratio, Rat(115, 100)) THEN <<"4", "6">>
         ELSE IF RLess(ratio, Rat(125, 100)) THEN <<"4", "8">>
         ELSE <<"5", "0">>) \o <<"R">>

\* The three fit ladders of _get_base_recommendation: numeric base and fit
\* suffix for a height-weight ratio.
ladder_size(fit, ratio) ==
    IF fit = "slim" THEN
        (IF RLess(ratio, Rat(80, 100)) THEN <<"3", "8">>
         ELSE IF RLess(ratio, Rat(90, 100)) THEN <<"4", "0">>
         ELSE IF RLess(ratio, Rat(100, 100)) THEN <<"4", "2">>
         ELSE IF RLess(ratio, Rat(110, 100)) THEN <<"4", "4">>
         ELSE <<"4", "6">>) \o <<"S">>
    ELSE IF fit = "relaxed" THEN
        (IF RLess(ratio, Rat(70, 100)) THEN <<"4", "0">>
         ELSE IF RLess(ratio, Rat(80, 100)) THEN <<"4", "2">>
         ELSE IF RLess(ratio, Rat(90, 100)) THEN <<"4", "4">>
         ELSE IF RLess(ratio, Rat(100, 100)) THEN <<"4", "6">>
         ELSE IF RLess(ratio, Rat(110, 100)) THEN <<"4", "8">>
         ELSE <<"5", "0">>) \o <<"R">>
    ELSE
        (IF RLess(ratio, Rat(75, 100)) THEN <<"3", "8">>
         ELSE IF RLess(ratio, Rat(85, 100)) THEN <<"4", "0">>
         ELSE IF RLess(ratio, Rat(95, 100)) THEN <<"4", "2">>
         ELSE IF RLess(ratio, Rat(105, 100)) THEN <<"4", "4">>
         ELSE IF RLess(ratio, Rat(115, 100)) THEN <<"4", "6">>
         ELSE IF RLess(ratio, Rat(125, 100)) THEN <<"4", "8">>
         ELSE <<"5", "0">>) \o <<"R">>

\* The length adjustment with the long marker applied from 185 cm on (the
\* inner test on 200 dropped).
length_adjusted_from_185(size, height_cm) ==
    IF RLess(Rat(185, 1), height_cm)
    THEN AllButLast(size) \o <<"L">>
    ELSE size

\* Length adjustment of _get_base_recommendation
length_adjusted(size, height_cm) ==
    IF RLess(Rat(185, 1), height_cm) /\ RLess(Rat(200, 1), height_cm)
    THEN AllButLast(size) \o <<"L">>
    ELSE size

\* _get_base_recommendation: the returned dict, with the contents of its
\* freshly built alterations list.  rationale is the f-string's only
\* parameter, fit; the rounded echo of the measurements is left out.
_get_base_recommendation(height, weight, fit, unit) ==
    LET height_cm == to_height_cm(height, unit)
        weight_kg == to_weight_kg(weight, unit)
        size == length_adjusted(
                    ladder_size(fit, height_weight_ratio(height_cm, weight_kg)),
                    height_cm)
        confidence == _calculate_wedding_confidence(height_cm, weight_kg, fit, size)
    IN  [size |-> size,
         confidence |-> confidence,
         confidenceLevel |-> _get_confidence_level(confidence),
         bodyType |-> _classify_body_type(height_cm, weight_kg),
         rationale |-> fit,
         alterations |-> _calculate_wedding_alterations(height_cm, weight_kg, fit, size)]

\* _get_wedding_specific_alterations
_get_wedding_specific_alterations(role, style, size) ==
    (CASE role = "groom" ->
            <<"Wedding_photo_optimization", "Comfortable_movement_for_dancing",
              "Vesting_compatibility">>
       [] role = "best_man" ->
            <<"Speech_comfort_adjustment", "Photo_coordination_with_groom">>
       [] role \in {"father_of_bride", "father_of_groom"} ->
            <<"Extended_comfort_for_long_ceremony", "Easy_sitting_adjustment">>
       [] OTHER -> << >>)
    \o (CASE style = "formal" -> <<"Formal_occasion_enhancements">>
          [] style = "black_tie" -> <<"Black_tie_appropriate_fitting", "Bow_tie_compatibility">>
          [] style = "beach" -> <<"Breathable_fabric_adjustments">>
          [] OTHER -> << >>)

\* _generate_wedding_rationale: the template chosen and its parameters
_generate_wedding_rationale(member, wedding, size) ==
    [template |-> IF member.role \in WeddingRole \ {"ring_bearer", "guests"}
                  THEN member.role ELSE "default",
     size |-> size,
     style |-> wedding.style,
     fit |-> member.fit_preference]

\* Confidence after the role and style boosts, left unclamped.
boosted_confidence_unclamped(confidence, role_boost, style_boost) ==
    confidence + (role_boost + style_boost)

\* min(1.0, enhanced['confidence'] + confidence_boost), in hundredths
boosted_confidence(confidence, role_boost, style_boost) ==
    min(100, confidence + (role_boost + style_boost))

\* Python objects.  A dict is a record; its 'alterations' entry holds the
\* address of a list object, and `heap` is the sequence of the contents of
\* the list objects allocated so far (address = index).
\*
\* _apply_wedding_enhancements: base_rec.copy() is a shallow copy, so the
\* copy's 'alterations' is the same list object as base_rec's, and extend()
\* changes that object.  Returns the new dict and the heap after the call.
_apply_wedding_enhancements(base_rec, member, wedding, role_config, heap) ==
    LET wedding_alterations ==
            _get_wedding_specific_alterations(member.role, wedding.style, base_rec.size)
        confidence ==
            boosted_confidence(base_rec.confidence, role_config.confidence_boost,
                               style_confidence_boost(wedding.style))
    IN  [enhanced |->
            [size |-> base_rec.size,
             confidence |-> confidence,
             confidenceLevel |-> _get_confidence_level(confidence),
             bodyType |-> base_rec.bodyType,
             rationale |-> base_rec.rationale,
             alterations |-> base_rec.alterations,
             wedding_role |-> member.role,
             wedding_style |-> wedding.style,
             role_based_adjustment |-> role_config.base_multiplier,
             style_influence |-> style_fit_preference_shift(wedding.style, "none"),
             wedding_rationale |-> _generate_wedding_rationale(member, wedding, base_rec.size)],
         heap |-> [heap EXCEPT ![base_rec.alterations] = @ \o wedding_alterations]]

\* get_role_based_recommendation, for the value `draw` of random.random().
\* The result is the heap after the call and a record of the call: how it
\* ended (a KeyError from the role lookup, or a return), its locals, the
\* base recommendation as it was when _apply_wedding_enhancements was
\* entered (base_before: the dict and the contents of its alterations list)
\* and as it is afterwards (base_rec), and the returned dict (enhanced).
get_role_based_recommendation(member, wedding, draw, heap) ==
    IF member.role \notin DOMAIN role_adjustments
    THEN [call |-> [status |-> "KeyError"], heap |-> heap]
    ELSE
    LET role_config == role_adjustments[member.role]
        adjusted_height == RMul(member.height, role_config.base_multiplier)
        adjusted_weight == RMul(member.weight, role_config.base_multiplier)
        preferred_fit ==
            _adjust_fit_preference(
                member.fit_preference,
                style_fit_preference_shift(wedding.style, member.fit_preference),
                role_config.style_flexibility, draw)
        base == _get_base_recommendation(adjusted_height, adjusted_weight,
                                         preferred_fit, member.unit)
        address == Len(heap) + 1
        base_rec == [base EXCEPT !.alterations = address]
        applied == _apply_wedding_enhancements(
                       base_rec, member, wedding, role_config,
                       Append(heap, base.alterations))
    IN  [call |->
            [status |-> "returned",
             preferred_fit |-> preferred_fit,
             height_cm |-> to_height_cm(adjusted_height, member.unit),
             weight_kg |-> to_weight_kg(adjusted_weight, member.unit),
             base_before |-> [dict |-> base_rec, alterations |-> base.alterations],
             base_rec |-> base_rec,
             enhanced |-> applied.enhanced],
         heap |-> applied.heap]

\* =====================================================================
\* Minimal input (minimal_sizing_input.py) and get_minimal_recommendation
\* =====================================================================

\* Optional[float] fields: None, or a number (whole inches here)
NoneFloat == [given |-> FALSE, value |-> 0]
SomeFloat(v) == [given |-> TRUE, value |-> v]

\* Python truth value of an Optional[float]: None and 0.0 are false
Truthy(x) == x.given /\ x.value # 0

\* Optional[str] field holding None
NoneStr == "<None>"

\* measurement_count: the advanced measurements that are not None
measurement_count(mi) ==
    Cardinality({k \in {"chest", "waist", "sleeve", "inseam"} : mi[k].given})

\* MinimalSizingInput.validate_minimal_input: the list of errors (warnings
\* do not influence the result)
validate_minimal_input(mi) ==
    LET errors ==
            (IF RLeq(mi.height, Rat(0, 1))
             THEN <<"Height is required and must be positive">> ELSE << >>)
            \o (IF RLeq(mi.weight, Rat(0, 1))
                THEN <<"Weight is required and must be positive">> ELSE << >>)
            \o (IF mi.fit_style = "" THEN <<"Fit style is required">>
                ELSE IF mi.fit_style \notin {"slim", "regular", "relaxed"}
                THEN <<"Fit style must be slim, regular, or relaxed">> ELSE << >>)
            \o (IF mi.body_type = "" THEN <<"Body type is required">>
                ELSE IF mi.body_type \notin {"athletic", "regular", "broad"}
                THEN <<"Body type must be athletic, regular, or broad">> ELSE << >>)
    IN  [valid |-> Len(errors) = 0, errors |-> errors]

\* MinimalSizingInput.get_enhancement_level
get_enhancement_level(mi) ==
    IF measurement_count(mi) >= 4
    THEN [accuracy_level |-> "95%+", confidence |-> 95,
          input_method |-> "advanced_measurements", enhancement |-> "full"]
    ELSE IF mi.wedding_role \notin {NoneStr, ""}
    THEN [accuracy_level |-> "93%", confidence |-> 93,
          input_method |-> "basic_with_wedding", enhancement |-> "wedding_enhanced"]
    ELSE [accuracy_level |-> "91%", confidence |-> 91,
          input_method |-> "minimal_basic", enhancement |-> "basic"]

\* body_type_adjustments of _apply_body_type_intelligence; multipliers in
\* hundredths
body_type_adjustments ==
    [athletic |-> [chest_multiplier |-> 105, waist_multiplier |-> 95,
                   shoulder_multiplier |-> 108, fit_preference |-> "slim"],
     regular |-> [chest_multiplier |-> 100, waist_multiplier |-> 100,
                  shoulder_multiplier |-> 100, fit_preference |-> "regular"],
     broad |-> [chest_multiplier |-> 95, waist_multiplier |-> 108,
                shoulder_multiplier |-> 102, fit_preference |-> "relaxed"]]

\* The size adjustment of _apply_body_type_intelligence
body_type_adjusted_size(current_size, adjustment) ==
    IF isdigit(AllButLast(current_size))
    THEN LET size_number == int(AllButLast(current_size))
             size_letter == LastChar(current_size)
             adjusted_number ==
                 IF adjustment.chest_multiplier > 105 THEN size_number + 1
                 ELSE IF adjustment.chest_multiplier < 98 THEN size_number - 1
                 ELSE size_number
         IN  str(adjusted_number) \o <<size_letter>>
    ELSE current_size

\* _apply_body_type_intelligence: a shallow copy of the recommendation with
\* the size adjusted and the body type metadata added.  The copy is written
\* as the entries it took over (dict) next to the key it adds.
_apply_body_type_intelligence(base_recommendation, body_type) ==
    LET adjustment == IF body_type \in DOMAIN body_type_adjustments
                      THEN body_type_adjustments[body_type]
                      ELSE body_type_adjustments["regular"]
    IN  [dict |-> [base_recommendation EXCEPT
                      !.size = body_type_adjusted_size(@, adjustment)],
         body_type_adjustment |->
            [body_type |-> body_type,
             adjustment_applied |-> TRUE,
             chest_adjusted |-> adjustment.chest_multiplier # 100,
             recommended_fit |-> adjustment.fit_preference]]

\* _refine_with_measurements: the measurement_refinement metadata added to a
\* shallow copy of the recommendation
_refine_with_measurements(base_recommendation, mi) ==
    LET size_number == int(AllButLast(base_recommendation.dict.size))
        expected_chest == size_number + 2
        expected_waist == size_number - 10
        measurement_adjustments ==
            (IF Truthy(mi.chest) /\ abs(mi.chest.value - expected_chest) > 2
             THEN <<"Chest_measurement_adjusted">> ELSE << >>)
            \o (IF Truthy(mi.waist) /\ abs(mi.waist.value - expected_waist) > 2
                THEN <<"Waist_measurement_adjusted">> ELSE << >>)
    IN  [dict |-> base_recommendation.dict,
         body_type_adjustment |-> base_recommendation.body_type_adjustment,
         measurement_refinement |->
            [advanced_measurements_used |-> TRUE,
             measurements_provided |-> <<mi.chest, mi.waist, mi.sleeve, mi.inseam>>,
             adjustments_applied |-> measurement_adjustments,
             accuracy_boost |-> 4]]

\* Optional[WeddingDetails] holding None
NoWeddingDetails == [style |-> NoneStr]

\* all([chest, waist, sleeve, inseam]) of get_minimal_recommendation
all_measurements(mi) ==
    Truthy(mi.chest) /\ Truthy(mi.waist) /\ Truthy(mi.sleeve) /\ Truthy(mi.inseam)

\* final_recommendation of get_minimal_recommendation, from the result of
\* _apply_body_type_intelligence
final_recommendation(body_type_adjustment, mi) ==
    IF all_measurements(mi) THEN _refine_with_measurements(body_type_adjustment, mi)
    ELSE body_type_adjustment

\* The response dict built by get_minimal_recommendation from
\* final_recommendation, enhancement_level and accuracy_boost (hundredths).
\* processing_time_ms and the timeline block (functions of the clock) are
\* left out.
minimal_response(mi, final, enhancement_level, accuracy_boost) ==
    [success |-> TRUE,
     recommended_size |-> final.dict.size,
     confidence |-> final.dict.confidence + accuracy_boost,
     accuracy_level |-> enhancement_level.accuracy_level,
     input_type |-> "minimal",
     input_method |-> enhancement_level.input_method,
     wedding_enhanced |-> mi.wedding_role # NoneStr,
     body_type_adjusted |-> TRUE,
     size_details |-> final,
     alterations |-> final.dict.alterations,
     enhancement_details |->
        [minimal_input |-> TRUE,
         body_type_intelligence |-> TRUE,
         wedding_optimization |-> mi.wedding_role # NoneStr,
         measurement_refined |-> accuracy_boost > 0],
     wedding_role_optimization |->
        [present |-> mi.wedding_role \notin {NoneStr, ""},
         role |-> mi.wedding_role]]

\* get_minimal_recommendation from the return of its inner call of
\* get_role_based_recommendation on: `out` is that call's record and heap.
\* A KeyError of the inner call is caught by the except clause.
minimal_after_role_based(mi, out) ==
    IF out.call.status = "KeyError"
    THEN [response |-> [success |-> FALSE, error |-> "Minimal sizing failed"],
          inner |-> <<out.call>>, heap |-> out.heap]
    ELSE [response |->
             minimal_response(
                 mi,
                 final_recommendation(
                     _apply_body_type_intelligence(out.call.enhanced, mi.body_type), mi),
                 get_enhancement_level(mi),
                 IF all_measurements(mi) THEN 4 ELSE 0),
          inner |-> <<out.call>>,
          heap |-> out.heap]

\* The WeddingRole get_minimal_recommendation gives the member: GROOM unless
\* minimal_input.wedding_role is the value of a WeddingRole
minimal_wedding_role(mi) ==
    IF mi.wedding_role \notin {NoneStr, ""} /\ mi.wedding_role \in WeddingRole
    THEN mi.wedding_role ELSE "groom"

\* get_minimal_recommendation, for the value `draw` of random.random() in the
\* inner call.  The result is the response, the record of the inner call of
\* get_role_based_recommendation (if it was reached) and the heap afterwards.
get_minimal_recommendation(mi, details, draw, heap) ==
    LET validation == validate_minimal_input(mi)
    IN  IF ~validation.valid
        THEN [response |-> [success |-> FALSE, error |-> "Invalid minimal input",
                            validation_errors |-> validation.errors],
              inner |-> << >>, heap |-> heap]
        ELSE minimal_after_role_based(
                 mi,
                 get_role_based_recommendation(
                     [role |-> minimal_wedding_role(mi), height |-> mi.height,
                      weight |-> mi.weight, fit_preference |-> mi.fit_style,
                      unit |-> mi.unit],
                     IF details = NoWeddingDetails THEN [style |-> "formal"] ELSE details,
                     draw, heap))

\* =====================================================================
\* GroupConsistencyAnalyzer (wedding_group_coordination.py)
\* =====================================================================

\* a + b
RAdd(a, b) == Rat(a.n * b.d + b.n * a.d, a.d * b.d)

\* sum(), min() and max() of a list of integers
RECURSIVE sum(_)
sum(s) == IF Len(s) = 0 THEN 0 ELSE s[1] + sum(Tail(s))

SetMin(S) == CHOOSE x \in S : \A y \in S : x <= y
SetMax(S) == CHOOSE x \in S : \A y \in S : y <= x

\* self.coordination_weights
coordination_weights ==
    [size_consistency |-> Rat(4, 10), visual_harmony |-> Rat(3, 10),
     role_hierarchy |-> Rat(2, 10), practical_fitting |-> Rat(1, 10)]

\* The loop of analyze_group_consistency over group.members: one call of
\* get_role_based_recommendation per member, draws[i] being the value of
\* random.random() in the i-th call.  A KeyError raised by a call ends the
\* loop and the analysis.
RECURSIVE member_recommendations(_, _, _, _, _)
append_recommendation(ms, wd, draws, recs, out) ==
    IF out.call.status = "KeyError"
    THEN [status |-> "KeyError", recs |-> recs, heap |-> out.heap]
    ELSE member_recommendations(
             ms, wd, draws,
             Append(recs, [member |-> ms[Len(recs) + 1],
                           recommendation |-> out.call.enhanced]),
             out.heap)

member_recommendations(ms, wd, draws, recs, hp) ==
    IF Len(recs) = Len(ms)
    THEN [status |-> "returned", recs |-> recs, heap |-> hp]
    ELSE append_recommendation(
             ms, wd, draws, recs,
             get_role_based_recommendation(ms[Len(recs) + 1], wd,
                                           draws[Len(recs) + 1], hp))

\* [int(rec['recommendation']['size'][:2]) for rec in member_recs]
numeric_sizes(member_recs) ==
    [i \in 1..Len(member_recs) |-> int(FirstTwo(member_recs[i].recommendation.size))]

\* _calculate_size_consistency.  statistics.variance is the sample
\* variance sum((x - mean) ** 2) / (n - 1), which for integers is
\* (n * sum(x * x) - sum(x) ** 2) / (n * (n - 1)) exactly.
_calculate_size_consistency(member_recs) ==
    IF Len(member_recs) < 2 THEN Rat(1, 1)
    ELSE LET sizes == numeric_sizes(member_recs)
             n == Len(sizes)
             squares == [i \in 1..n |-> sizes[i] * sizes[i]]
             size_variance == Rat(n * sum(squares) - sum(sizes) * sum(sizes),
                                  n * (n - 1))
         IN  \* max(0, 1 - (size_variance / max_variance)), max_variance = 16
             IF RLeq(Rat(16, 1), size_variance) THEN Rat(0, 1)
             ELSE Rat(16 * size_variance.d - size_variance.n, 16 * size_variance.d)

\* _calculate_visual_harmony (the sum in hundredths before the style
\* factor 0.95).  groom_size is 0 where the source has None: both are falsy.
_calculate_visual_harmony(member_recs, style) ==
    LET n == Len(member_recs)
        sizes == numeric_sizes(member_recs)
        fit_preferences == {member_recs[i].member.fit_preference : i \in 1..n}
        fit_bonus == IF Cardinality(fit_preferences) = 1 THEN 10
                     ELSE IF Cardinality(fit_preferences) = 2 THEN 5 ELSE 0
        grooms == {i \in 1..n : member_recs[i].member.role = "groom"}
        groom_size == IF grooms = {} THEN 0 ELSE sizes[SetMin(grooms)]
        harmony_adjustments ==
            [i \in 1..n |->
                LET size_diff == abs(sizes[i] - groom_size)
                IN  IF member_recs[i].member.role = "groom" THEN 0
                    ELSE IF member_recs[i].member.role = "best_man"
                    THEN (IF size_diff <= 1 THEN 10
                          ELSE IF size_diff <= 2 THEN 5 ELSE 0)
                    ELSE (IF size_diff <= 2 THEN 5 ELSE 0)]
        harmony_score == 80 + fit_bonus
                         + (IF groom_size # 0 THEN sum(harmony_adjustments) ELSE 0)
        styled == IF style \in {"formal", "black_tie"}
                  THEN Rat(harmony_score * 95, 10000)
                  ELSE Rat(harmony_score, 100)
    IN  IF RLess(Rat(1, 1), styled) THEN Rat(1, 1) ELSE styled

\* _calculate_role_hierarchy, in hundredths.  The loop keeps the last
\* groom and the last best man of the list.
_calculate_role_hierarchy(member_recs) ==
    LET n == Len(member_recs)
        sizes == numeric_sizes(member_recs)
        grooms == {i \in 1..n : member_recs[i].member.role = "groom"}
        best_men == {i \in 1..n : member_recs[i].member.role = "best_man"}
        groom_bonus ==
            IF grooms # {}
               /\ member_recs[SetMax(grooms)].recommendation.confidence >= 80
            THEN 5 ELSE 0
        best_man_bonus ==
            IF grooms # {} /\ best_men # {}
               /\ abs(sizes[SetMax(grooms)] - sizes[SetMax(best_men)]) <= 1
            THEN 5 ELSE 0
    IN  min(100, 90 + groom_bonus + best_man_bonus)

\* _calculate_practical_fitting taking 0.10 instead of 0.15 for a size
\* range above 6
_calculate_practical_fitting_less_10(recs) ==
    LET n == Len(recs)
        sizes == numeric_sizes(recs)
        size_range == IF n = 0 THEN 0
                      ELSE SetMax({sizes[i] : i \in 1..n}) - SetMin({sizes[i] : i \in 1..n})
        range_penalty == IF size_range > 4 THEN 10
                         ELSE IF size_range > 2 THEN 5 ELSE 0
        low_confidence_count ==
            Cardinality({i \in 1..n : recs[i].recommendation.confidence < 70})
        confidence_penalty == IF 10 * low_confidence_count > 3 * n THEN 10 ELSE 0
        practical_score == 85 - range_penalty - confidence_penalty
    IN  IF practical_score < 0 THEN 0 ELSE practical_score

\* _calculate_practical_fitting, in hundredths
_calculate_practical_fitting(member_recs) ==
    LET n == Len(member_recs)
        sizes == numeric_sizes(member_recs)
        size_range == IF n = 0 THEN 0
                      ELSE SetMax({sizes[i] : i \in 1..n}) - SetMin({sizes[i] : i \in 1..n})
        range_penalty == IF size_range > 6 THEN 15
                         ELSE IF size_range > 4 THEN 10
                         ELSE IF size_range > 2 THEN 5 ELSE 0
        low_confidence_count ==
            Cardinality({i \in 1..n : member_recs[i].recommendation.confidence < 70})
        \* low_confidence_count > len(member_recs) * 0.3
        confidence_penalty == IF 10 * low_confidence_count > 3 * n THEN 10 ELSE 0
        practical_score == 85 - range_penalty - confidence_penalty
    IN  IF practical_score < 0 THEN 0 ELSE practical_score

\* The weighted sum with the first two weights exchanged.
overall_score_weights_swapped(size_consistency, visual_harmony, role_hierarchy, practical_fitting) ==
    RAdd(RAdd(RMul(size_consistency, coordination_weights.visual_harmony),
              RMul(visual_harmony, coordination_weights.size_consistency)),
         RAdd(RMul(role_hierarchy, coordination_weights.role_hierarchy),
              RMul(practical_fitting, coordination_weights.practical_fitting)))

\* overall_score before rounding
overall_score(size_consistency, visual_harmony, role_hierarchy, practical_fitting) ==
    RAdd(RAdd(RMul(size_consistency, coordination_weights.size_consistency),
              RMul(visual_harmony, coordination_weights.visual_harmony)),
         RAdd(RMul(role_hierarchy, coordination_weights.role_hierarchy),
              RMul(practical_fitting, coordination_weights.practical_fitting)))

\* 10 ** k
RECURSIVE pow10(_)
pow10(k) == IF k = 0 THEN 1 ELSE 10 * pow10(k - 1)

\* round(x, ndigits), counted in units of 10 ** -ndigits (round(x, 3) in
\* thousandths).  The source rounds a double: where the exact value lies
\* halfway between two neighbours, the double that stands for it may lie on
\* either side, so both neighbours are possible.
round(x, ndigits) ==
    LET fraction == (x.n % x.d) * pow10(ndigits)
        whole == (x.n \div x.d) * pow10(ndigits) + fraction \div x.d
        rest == fraction % x.d
    IN  IF rest < x.d - rest THEN {whole}
        ELSE IF rest > x.d - rest THEN {whole + 1}
        ELSE {whole, whole + 1}

\* _generate_coordination_recommendations: the recommendations made by
\* rule, each a text with its arguments.  (The two timeline texts depend on
\* the wedding date, which is not represented.)
_generate_coordination_recommendations(member_recs, style) ==
    LET n == Len(member_recs)
        sizes == numeric_sizes(member_recs)
        values == {sizes[i] : i \in 1..n}
        count(v) == Cardinality({i \in 1..n : sizes[i] = v})
        first(v) == SetMin({i \in 1..n : sizes[i] = v})
        \* Counter(sizes).most_common(1)[0][0]
        most_common_size ==
            CHOOSE v \in values :
                \A u \in values \ {v} :
                    count(u) < count(v) \/ (count(u) = count(v) /\ first(v) < first(u))
        grooms == {i \in 1..n : member_recs[i].member.role = "groom"}
    IN  (IF n > 0 /\ SetMax(values) - SetMin(values) > 4
         THEN <<[text |-> "Consider adjusting sizes to reduce range",
                 args |-> <<SetMin(values), SetMax(values)>>]>>
         ELSE << >>)
        \o
        (IF n > 0
         THEN <<[text |-> "Consider having members in size for optimal bulk ordering",
                 args |-> <<count(most_common_size), most_common_size>>]>>
         ELSE << >>)
        \o
        (IF grooms # {} /\ member_recs[SetMin(grooms)].recommendation.confidence < 80
         THEN <<[text |-> "Groom sizing has low confidence", args |-> << >>]>>
         ELSE << >>)
        \o
        (IF style = "formal"
         THEN <<[text |-> "For formal wedding", args |-> << >>]>>
         ELSE IF style = "black_tie"
         THEN <<[text |-> "For black tie", args |-> << >>]>>
         ELSE << >>)

\* statistics.median(sizes), doubled: the middle value of the sorted sizes
\* counted twice, or the sum of the two middle values
doubled_median(sizes) ==
    LET n == Len(sizes)
        kth(k) == CHOOSE v \in {sizes[i] : i \in 1..n} :
                      /\ Cardinality({i \in 1..n : sizes[i] < v}) < k
                      /\ k <= Cardinality({i \in 1..n : sizes[i] <= v})
    IN  IF n % 2 = 1 THEN 2 * kth((n + 1) \div 2)
        ELSE kth(n \div 2) + kth(n \div 2 + 1)

\* _identify_fitting_challenges: per member the height and the weight
\* check, on member.height and member.weight as they are stored, then the
\* size outliers against the median
_identify_fitting_challenges(member_recs) ==
    LET n == Len(member_recs)
        sizes == numeric_sizes(member_recs)
        measure == [k \in 1..(2 * n) |->
                       LET person == member_recs[(k + 1) \div 2].member
                       IN  IF k % 2 = 1
                           THEN [member |-> person.name, text |-> "Extreme height",
                                 flagged |-> \/ RLess(person.height, Rat(160, 1))
                                             \/ RLess(Rat(200, 1), person.height)]
                           ELSE [member |-> person.name, text |-> "Extreme weight",
                                 flagged |-> \/ RLess(person.weight, Rat(55, 1))
                                             \/ RLess(Rat(120, 1), person.weight)]]
        outlier == [i \in 1..n |->
                       [member |-> member_recs[i].member.name,
                        text |-> "Size is significantly different from group average",
                        flagged |-> abs(2 * sizes[i] - doubled_median(sizes)) > 6]]
    IN  SelectSeq(measure \o outlier, LAMBDA challenge : challenge.flagged)

\* group_size >= 2 in place of group_size >= 3
bulk_discount_eligible_from_two(group_size) == group_size >= 2

\* 'bulk_discount_eligible': group_size >= 3
bulk_discount_eligible(group_size) == group_size >= 3

\* The 'priority_order' list of _optimize_bulk_order: the first groom of
\* member_recs with priority 1, then the size groups by falling member
\* count (sorted() is stable, groups of equal count stay in the order in
\* which their size first occurs), of each group the members whose role is
\* not groom, with priority 2.
priority_order(member_recs) ==
    LET n == Len(member_recs)
        size(i) == member_recs[i].recommendation.size
        count(i) == Cardinality({j \in 1..n : size(j) = size(i)})
        first(i) == SetMin({j \in 1..n : size(j) = size(i)})
        grooms == {i \in 1..n : member_recs[i].member.role = "groom"}
        others == (1..n) \ grooms
        before(j, i) == \/ count(j) > count(i)
                        \/ count(j) = count(i) /\ first(j) < first(i)
                        \/ count(j) = count(i) /\ first(j) = first(i) /\ j < i
        entry(i, priority) == [member |-> member_recs[i].member.name,
                               size |-> size(i),
                               priority |-> priority,
                               group_size |-> count(i)]
    IN  (IF grooms = {} THEN << >> ELSE <<entry(SetMin(grooms), 1)>>)
        \o
        [k \in 1..Cardinality(others) |->
            entry(CHOOSE i \in others :
                      Cardinality({j \in others : before(j, i)}) = k - 1, 2)]

\* _optimize_bulk_order: the 'size_groups' entry (a dict keyed by size) and
\* the 'priority_order' list of 'recommended_ordering'
_optimize_bulk_order(member_recs) ==
    [size_groups |->
        [size \in {member_recs[i].recommendation.size : i \in 1..Len(member_recs)} |->
            LET group == SelectSeq(member_recs,
                                   LAMBDA rec : rec.recommendation.size = size)
                group_size == Len(group)
            IN  [count |-> group_size,
                 members |-> [i \in 1..group_size |-> group[i].member.name],
                 bulk_discount_eligible |-> bulk_discount_eligible(group_size),
                 estimated_savings |-> (group_size - 1) * 25]],
     priority_order |-> priority_order(member_recs)]

\* _analyze_size_distribution
_analyze_size_distribution(member_recs) ==
    [size \in {member_recs[i].recommendation.size : i \in 1..Len(member_recs)} |->
        Cardinality({i \in 1..Len(member_recs) :
                        member_recs[i].recommendation.size = size})]

\* analyze_group_consistency after the loop over the members: the scores
\* and the fields of GroupConsistencyResult that depend on the sizes.  The
\* scores are kept next to the result (the source holds them in locals);
\* overall_score and visual_harmony_score are still to be rounded.
group_consistency(loop, wd) ==
    IF loop.status = "KeyError"
    THEN [status |-> "KeyError", heap |-> loop.heap]
    ELSE [status |-> "returned",
          member_recommendations |-> loop.recs,
          size_consistency |-> _calculate_size_consistency(loop.recs),
          visual_harmony |-> _calculate_visual_harmony(loop.recs, wd.style),
          role_hierarchy |-> Rat(_calculate_role_hierarchy(loop.recs), 100),
          practical_fitting |-> Rat(_calculate_practical_fitting(loop.recs), 100),
          coordination_recommendations |->
              _generate_coordination_recommendations(loop.recs, wd.style),
          fitting_challenges |-> _identify_fitting_challenges(loop.recs),
          size_distribution |-> _analyze_size_distribution(loop.recs),
          bulk_order_optimization |-> _optimize_bulk_order(loop.recs),
          heap |-> loop.heap]

\* analyze_group_consistency(group)
analyze_group_consistency(ms, wd, draws, hp) ==
    group_consistency(member_recommendations(ms, wd, draws, << >>, hp), wd)

\* =====================================================================
\* KCTmenswearIntegration (kctmenswear_integration.py)
\* =====================================================================

\* KCTWeddingOrder(order_id=..., wedding_group=...) with the dataclass
\* defaults but status CONFIRMED
KCTWeddingOrder_confirmed(order_id) ==
    [order_id |-> order_id, items |-> << >>, total_amount |-> Rat(0, 1),
     bulk_discount |-> Rat(0, 1), status |-> "confirmed",
     estimated_completion |-> << >>, kct_order_number |-> << >>]

\* KCTWeddingOrder(order_id=..., wedding_group=...): the dataclass
\* defaults.  None is the empty sequence, a value v is <<v>>; amounts are in
\* cents.  wedding_group refers to the group itself (`members`).
KCTWeddingOrder(order_id) ==
    [order_id |-> order_id, items |-> << >>, total_amount |-> Rat(0, 1),
     bulk_discount |-> Rat(0, 1), status |-> "pending",
     estimated_completion |-> << >>, kct_order_number |-> << >>]

\* _determine_product_type
_determine_product_type(role, style) ==
    IF style = "black_tie" THEN "tuxedo"
    ELSE IF style \in {"formal", "semi_formal"} THEN "suit"
    ELSE IF style = "casual" THEN "blazer"
    ELSE "suit"

\* create_wedding_order after its calls of get_role_based_recommendation
\* (`loop`): one add_item per member, each followed by
\* _recalculate_totals.  Of an item the member, the product type, the size
\* and the fit are kept; estimated_completion is kept as the number of
\* production days.  A KeyError of the engine leaves no order.
create_wedding_order(loop, ms, wd, time) ==
    IF loop.status = "KeyError" THEN [status |-> "KeyError"]
    ELSE LET items == [i \in 1..Len(ms) |->
                          [member_name |-> ms[i].name,
                           product_type |-> _determine_product_type(ms[i].role, wd.style),
                           size |-> loop.recs[i].recommendation.size,
                           fit_preference |-> ms[i].fit_preference]]
             item_price(item) == CASE item.product_type = "suit" -> 29999
                                   [] item.product_type = "tuxedo" -> 39999
                                   [] item.product_type = "blazer" -> 24999
                                   [] OTHER -> 10000
             subtotal == sum([i \in 1..Len(items) |-> item_price(items[i])])
             group_size == Len(ms)
             bulk_discount == IF group_size >= 5 THEN Rat(subtotal * 15, 100)
                              ELSE IF group_size >= 3 THEN Rat(subtotal * 10, 100)
                              ELSE Rat(0, 1)
             production_days == IF 14 < group_size * 2 THEN group_size * 2 ELSE 14
         IN  [status |-> "returned",
              kct_order |->
                  IF items = << >> THEN KCTWeddingOrder(<<"WEDDING", time>>)
                  ELSE [KCTWeddingOrder(<<"WEDDING", time>>) EXCEPT
                           !.items = items,
                           !.bulk_discount = bulk_discount,
                           !.total_amount = Rat(subtotal * 100 - bulk_discount.n * (100 \div bulk_discount.d), 100),
                           !.estimated_completion = <<production_days>>]]

\* The response of /api/wedding/group/create for the order just created
create_wedding_group(kct_order, ms) ==
    [success |-> TRUE, member_count |-> Len(ms),
     kct_order_id |-> kct_order.kct_order_number]

\* submit_order_to_kct.  The payload is built first, with the analysis of
\* the order's group (`group_analysis`); an exception there leaves the
\* method.  Inside the try block estimated_completion.isoformat() fails
\* for an order without items and the except branch answers success False;
\* otherwise the order gets its number and becomes CONFIRMED.
submit_order_to_kct(kct_order, group_analysis, time) ==
    IF group_analysis.status = "KeyError"
    THEN [status |-> "KeyError", kct_order |-> kct_order]
    ELSE IF kct_order.estimated_completion = << >>
    THEN [status |-> "returned", success |-> FALSE, kct_order |-> kct_order]
    ELSE [status |-> "returned", success |-> TRUE,
          kct_order |-> [kct_order EXCEPT !.kct_order_number = <<"KCT", time>>,
                                          !.status = "confirmed"]]

\* =====================================================================
\* EnhancedSuitSizeEngine (ml_enhanced_sizing_engine.py)
\* =====================================================================

\* _calculate_enhanced_alterations
_calculate_enhanced_alterations(height_cm, weight_kg, fit, anthropometric_data) ==
    LET body_type == anthropometric_data.body_type
        bmi == anthropometric_data.bmi
    IN  (IF body_type = "Athletic"
         THEN <<"Shoulder_width_adjustment", "Chest_let_out", "Armhole_modification">>
         ELSE IF body_type = "Broad"
         THEN <<"Waist_let_out", "Trouser_widening", "Shoulder_width_adjustment">>
         ELSE IF body_type = "Slim"
         THEN <<"Waist_take_in", "Sleeve_shortening", "Chest_take_in">>
         ELSE IF body_type = "Slender"
         THEN <<"Waist_take_in", "Sleeve_shortening">>
         ELSE <<"Minor_adjustments_as_needed">>)
        \o
        (IF RLess(Rat(200, 1), height_cm)
         THEN <<"Sleeve_lengthening", "Trouser_lengthening">>
         ELSE IF RLess(Rat(190, 1), height_cm) THEN <<"Sleeve_lengthening">>
         ELSE IF RLess(height_cm, Rat(160, 1))
         THEN <<"Sleeve_shortening", "Trouser_shortening">>
         ELSE << >>)
        \o
        (IF fit = "slim" /\ RLess(Rat(25, 1), bmi)
         THEN <<"Fit_relaxation_recommended">>
         ELSE IF fit = "relaxed" /\ RLess(bmi, Rat(22, 1))
         THEN <<"Fit_tightening_possible">>
         ELSE << >>)

\* get_size_recommendation: the entries of the recommendation that are
\* computed by rule.  'size', 'confidence', 'confidenceLevel' and
\* 'rationale' come from the estimators fitted at start-up and are not
\* represented.  The measurements are rounded to one decimal (tenths).
get_size_recommendation(height, weight, fit, unit) ==
    LET anthropometric_data == validate_measurements(height, weight, unit)
    IN  {[bodyType |-> anthropometric_data.body_type,
          alterations |-> _calculate_enhanced_alterations(
                              anthropometric_data.height_cm,
                              anthropometric_data.weight_kg, fit,
                              anthropometric_data),
          measurements |-> [height_cm |-> h, weight_kg |-> w, bmi |-> b,
                            unit |-> unit]] :
            h \in round(anthropometric_data.height_cm, 1),
            w \in round(anthropometric_data.weight_kg, 1),
            b \in round(anthropometric_data.bmi, 1)}

\* =====================================================================
\* MLEnhancedRailwayBackend (ml_railway_backend.py)
\* =====================================================================

\* self.cache_ttl (seconds) and self.rate_limit (requests per minute)
cache_ttl == 300
rate_limit == 10

\* A value of a request field: None, a string that is not a number, or a
\* number.
PyValue(kind, v) == [kind |-> kind, value |-> v]

\* get_cache_key: f"{height:.1f}_{weight:.1f}_{fit}_{unit}".  The two
\* numbers are formatted with one decimal, so the key holds them rounded
\* to tenths.
get_cache_key(height, weight, fit, unit) ==
    {<<h, w, fit, unit>> : h \in round(height, 1), w \in round(weight, 1)}

\* is_cache_valid with `<=` in place of `<`: an entry is still served at
\* the age of cache_ttl
is_cache_valid_through_ttl(cache_entry, time) == time - cache_entry.timestamp <= cache_ttl

\* is_cache_valid at time `time`: the entry's ISO timestamp is parsed back
\* to the second it was written in.
is_cache_valid(cache_entry, time) == time - cache_entry.timestamp < cache_ttl

\* check_rate_limit with `>` in place of `>=`: a client at the limit is
\* admitted once more
check_rate_limit_past_limit(client_ip, counts, time) ==
    LET minute_window == time \div 60
        own == IF client_ip \in DOMAIN counts THEN counts[client_ip] ELSE << >>
        kept == [k \in {k \in DOMAIN own : ~(k < minute_window - 1)} |-> own[k]]
        current_count == IF minute_window \in DOMAIN kept THEN kept[minute_window] ELSE 0
    IN  IF current_count > rate_limit
        THEN [allowed |-> FALSE, request_counts |-> (client_ip :> kept) @@ counts]
        ELSE [allowed |-> TRUE,
              request_counts |->
                  (client_ip :> ((minute_window :> current_count + 1) @@ kept)) @@ counts]

\* check_rate_limit at time `time`: the answer and request_counts after it
check_rate_limit(client_ip, counts, time) ==
    LET minute_window == time \div 60
        own == IF client_ip \in DOMAIN counts THEN counts[client_ip] ELSE << >>
        kept == [k \in {k \in DOMAIN own : ~(k < minute_window - 1)} |-> own[k]]
        current_count == IF minute_window \in DOMAIN kept THEN kept[minute_window] ELSE 0
    IN  IF current_count >= rate_limit
        THEN [allowed |-> FALSE, request_counts |-> (client_ip :> kept) @@ counts]
        ELSE [allowed |-> TRUE,
              request_counts |->
                  (client_ip :> ((minute_window :> current_count + 1) @@ kept)) @@ counts]

\* validate_input: (is_valid, error_message, validated_data)
validate_input(data) ==
    LET invalid(message) == [is_valid |-> FALSE, error_message |-> message]
    IN  IF data.height.kind = "None" THEN invalid("Height is required")
        ELSE IF data.height.kind = "str" THEN invalid("Height must be a valid number")
        ELSE IF data.weight.kind = "None" THEN invalid("Weight is required")
        ELSE IF data.weight.kind = "str" THEN invalid("Weight must be a valid number")
        ELSE IF data.fit \notin {"slim", "regular", "relaxed"}
        THEN invalid("Fit must be one of: slim, regular, relaxed")
        ELSE IF data.unit \notin {"metric", "imperial"}
        THEN invalid("Unit must be one of: metric, imperial")
        ELSE IF RLess(data.height.value, Rat(120, 1)) \/ RLess(Rat(250, 1), data.height.value)
        THEN invalid("Height must be between 120cm and 250cm")
        ELSE IF RLess(data.weight.value, Rat(40, 1)) \/ RLess(Rat(200, 1), data.weight.value)
        THEN invalid("Weight must be between 40kg and 200kg")
        ELSE [is_valid |-> TRUE, error_message |-> "",
              height |-> data.height.value, weight |-> data.weight.value,
              fit |-> data.fit, unit |-> data.unit]

\* The cache hit without the copy: 'cached' is set on the stored entry
cached_result_without_copy(entries, cache_key) ==
    [response |-> [entries[cache_key] EXCEPT !.cached = TRUE],
     cache |-> [entries EXCEPT ![cache_key].cached = TRUE]]

\* The cache hit of process_sizing_request: 'cached' is set on a copy of
\* the entry, the entry stays as it was stored.
cached_result(entries, cache_key) ==
    [response |-> [entries[cache_key] EXCEPT !.cached = TRUE], cache |-> entries]

\* process_sizing_request after the rate limit check passed: validation,
\* cache lookup, engine call and cache store.  The outcomes are the pairs
\* of the response and the cache afterwards.  The estimators the engine
\* fits at start-up are not represented, so the engine call inside the try
\* block either returns or raises; the handler of the exception answers
\* INTERNAL_ERROR and is reached before the store.
answer_request(validated, entries, time) ==
    IF ~validated.is_valid
    THEN {[response |-> [error |-> validated.error_message, code |-> "VALIDATION_ERROR"],
           cache |-> entries]}
    ELSE UNION {
        IF cache_key \in DOMAIN entries /\ is_cache_valid(entries[cache_key], time)
        THEN {cached_result(entries, cache_key)}
        ELSE {[response |-> [error |-> "Internal processing error",
                             code |-> "INTERNAL_ERROR"],
               cache |-> entries]}
             \cup
             {[response |-> api_response,
               cache |-> (cache_key :> api_response) @@ entries] :
                 api_response \in
                    {[bodyType |-> ml_result.bodyType,
                      alterations |-> ml_result.alterations,
                      measurements |-> ml_result.measurements,
                      cached |-> FALSE,
                      timestamp |-> time] :
                        ml_result \in get_size_recommendation(
                                          validated.height, validated.weight,
                                          validated.fit, validated.unit)}} :
        cache_key \in get_cache_key(validated.height, validated.weight,
                                    validated.fit, validated.unit)}

\* process_sizing_request(request_data, client_ip) at time `time`
process_sizing_request(request_data, client_ip, entries, counts, time) ==
    LET limit == check_rate_limit(client_ip, counts, time)
    IN  IF ~limit.allowed
        THEN {[response |-> [error |-> "Rate limit exceeded. Maximum 10 requests per minute.",
                             retry_after |-> 60],
               cache |-> entries,
               request_counts |-> limit.request_counts]}
        ELSE {[response |-> out.response, cache |-> out.cache,
               request_counts |-> limit.request_counts] :
                 out \in answer_request(validate_input(request_data), entries, time)}

\* ---------------------------------------------------------------------
\* Bounds and input sets
\* ---------------------------------------------------------------------
MaxMembers == 3
MemberIds == {"m1", "m2"}

\* Number of successive calls of get_role_based_recommendation on one member
MaxCalls == 2

FitPreference == {"slim", "regular", "relaxed"}

\* Heights in cm and weights in hundredths of a kg: the values around the
\* confidence and length thresholds, and small ones whose ratio and bmi fall
\* on the lower rungs of the ladders and in each body type.
MetricHeights == {4, 5, 125, 130, 160, 170, 185, 197, 200, 204, 220}
MetricWeights100 == {3, 5, 100, 200, 4900, 6500, 9500, 12100}

\* Heights in inches and weights in pounds
ImperialHeights == {70, 78, 80}
ImperialWeights == {150, 270}

Measurements ==
    {[height |-> Rat(h, 1), weight |-> Rat(w, 100), unit |-> "metric"] :
        h \in MetricHeights, w \in MetricWeights100}
    \cup
    {[height |-> Rat(h, 1), weight |-> Rat(w, 1), unit |-> "imperial"] :
        h \in ImperialHeights, w \in ImperialWeights}

\* The ladder thresholds, in hundredths
LadderThresholds == {70, 75, 80, 85, 90, 95, 100, 105, 110, 115, 125}

\* The source computes in IEEE doubles, the model in exact rationals.  The
\* two agree on a comparison unless the exact operands are equal; that
\* happens for a measurement whose ratio is exactly a ladder threshold when
\* it is scaled by a role multiplier other than 1.0 (after 0.98 * w and
\* 0.98 * h are rounded, the quotient can fall on either side).  Such
\* members are left out of the input set; on every member kept, the
\* source returns what the model computes.
RoundingSensitive(role, m) ==
    /\ role \in DOMAIN role_adjustments
    /\ role_adjustments[role].base_multiplier # Rat(1, 1)
    /\ \E t \in LadderThresholds :
          height_weight_ratio(to_height_cm(m.height, m.unit),
                              to_weight_kg(m.weight, m.unit)) = Rat(t, 100)

\* WeddingPartyMember objects (the fields the engine reads)
AllMembers ==
    {[role |-> r, height |-> m.height, weight |-> m.weight,
      fit_preference |-> f, unit |-> m.unit] :
        r \in WeddingRole, m \in Measurements, f \in FitPreference}

Members == {x \in AllMembers : ~RoundingSensitive(x.role, x)}

\* Members the engine is not meant to size: weight zero, a fit preference
\* and a unit outside the documented tokens.  (Height zero is left out: the
\* division by height / 100 raises ZeroDivisionError before any size exists.)
InvalidMembers ==
    {[role |-> r, height |-> Rat(170, 1), weight |-> Rat(0, 1),
      fit_preference |-> f, unit |-> "metric"] :
        r \in {"groom", "father_of_bride"}, f \in FitPreference}
    \cup
    {[role |-> r, height |-> Rat(170, 1), weight |-> Rat(65, 1),
      fit_preference |-> "loose", unit |-> "metric"] :
        r \in {"groom", "groomsman"}}
    \cup
    {[role |-> r, height |-> Rat(11, 1), weight |-> Rat(10, 1),
      fit_preference |-> f, unit |-> "stone"] :
        r \in {"groom", "groomsman"}, f \in {"regular", "slim"}}

\* Members of 200 cm whose weight is twice a ladder threshold or one
\* hundredth of a kilogram below that, in the roles whose multiplier is 1.0:
\* height / 100 is 2.0 and the ratio is the threshold itself, in the doubles
\* of the source as in the rationals here.
TieMembers ==
    {[role |-> r, height |-> Rat(200, 1), weight |-> Rat(2 * t - d, 100),
      fit_preference |-> f, unit |-> "metric"] :
        r \in {"groom", "best_man", "guests"}, t \in LadderThresholds,
        d \in {0, 1}, f \in FitPreference}

\* Metric members on the corners and inside the accepted physical range
\* (height 120 to 250 cm, weight 40 to 200 kg), in every role
RangeMembers ==
    {[role |-> r, height |-> Rat(h, 1), weight |-> Rat(w, 1),
      fit_preference |-> f, unit |-> "metric"] :
        r \in WeddingRole, h \in {120, 175, 250}, w \in {40, 75, 200},
        f \in FitPreference}

EdgeMembers == InvalidMembers \cup TieMembers \cup RangeMembers

\* Positive heights (cm) and weights (thousandths of a kg) for the two body
\* type classifiers: adult measurements, and small ones whose bmi lies
\* between 18.5 and 30 while the ratio lies between 0.85 and 1.1.
ClassifyHeights == {3, 4, 5, 170, 200}
ClassifyWeights1000 == {26, 30, 35, 42, 45, 50, 60, 1000, 50000, 65000, 90000, 121000}

ClassifyInputs ==
    {[role |-> "guests", height |-> Rat(h, 1), weight |-> Rat(w, 1000),
      fit_preference |-> "regular", unit |-> "metric"] :
        h \in ClassifyHeights, w \in ClassifyWeights1000}

\* Members of a wedding party (name and the fields the engine reads): a
\* groom and a father of the bride with the same measurements, a small best
\* man, a groomsman, a ring bearer and a second groom.
PartyMembers ==
    {[name |-> "Adam", role |-> "groom", height |-> Rat(200, 1),
      weight |-> Rat(121, 1), fit_preference |-> "regular", unit |-> "metric"],
     [name |-> "Bert", role |-> "father_of_bride", height |-> Rat(200, 1),
      weight |-> Rat(121, 1), fit_preference |-> "regular", unit |-> "metric"],
     [name |-> "Carl", role |-> "best_man", height |-> Rat(130, 1),
      weight |-> Rat(1, 1), fit_preference |-> "slim", unit |-> "metric"],
     [name |-> "Dave", role |-> "groomsman", height |-> Rat(170, 1),
      weight |-> Rat(65, 1), fit_preference |-> "relaxed", unit |-> "metric"],
     [name |-> "Eli", role |-> "ring_bearer", height |-> Rat(130, 1),
      weight |-> Rat(30, 1), fit_preference |-> "regular", unit |-> "metric"],
     [name |-> "Finn", role |-> "groom", height |-> Rat(170, 1),
      weight |-> Rat(65, 1), fit_preference |-> "slim", unit |-> "metric"]}

\* The wedding of the party: a style with the 0.95 harmony factor, one
\* without, and one that has no entry in style_impacts.
PartyWeddings == [style : {"formal", "casual", "semi_formal"}]

\* Values of random.random() in the calls made for a party (hundredths)
PartyDraws == {0, 50}

\* Requests to the backend: two metric requests whose heights agree to one
\* decimal, imperial requests inside and outside the physical range, a
\* metric request below the range, and requests with a missing height, a
\* height and a weight that are not numbers, an unknown fit and an unknown
\* unit.
SizingRequests ==
    {[height |-> PyValue("float", h), weight |-> PyValue("float", Rat(80, 1)),
      fit |-> "regular", unit |-> "metric"] :
        h \in {Rat(200, 1), Rat(20004, 100), Rat(119, 1)}}
    \cup
    {[height |-> PyValue("float", Rat(h, 1)), weight |-> PyValue("float", Rat(w, 1)),
      fit |-> "slim", unit |-> "imperial"] :
        h \in {70, 130}, w \in {170}}
    \cup
    {[height |-> PyValue(k, Rat(0, 1)), weight |-> PyValue("float", Rat(80, 1)),
      fit |-> "regular", unit |-> "metric"] : k \in {"None", "str"}}
    \cup
    {[height |-> PyValue("float", Rat(180, 1)), weight |-> PyValue("str", Rat(0, 1)),
      fit |-> "regular", unit |-> "metric"],
     [height |-> PyValue("float", Rat(180, 1)), weight |-> PyValue("float", Rat(80, 1)),
      fit |-> "loose", unit |-> "metric"],
     [height |-> PyValue("float", Rat(180, 1)), weight |-> PyValue("float", Rat(80, 1)),
      fit |-> "regular", unit |-> "stone"]}

\* The requests of a burst: one that validates and one that does not
BurstRequests ==
    {r \in SizingRequests :
        \/ r.height = PyValue("float", Rat(200, 1))
        \/ r.height.kind = "None"}

\* Request threads of the server that serve the same client at once, and
\* the number of requests let in during one run
RaceThreads == {"t1", "t2"}
MaxAdmitted == 12

\* Entries of a member_recs list handed to _calculate_practical_fitting
\* and _identify_fitting_challenges: members on and next to the limits
\* 160 and 200 cm, 55 and 120 kg, a member measured in inches and pounds,
\* sizes 42 to 50, confidences on and next to 0.7
FittingRecs ==
    {[member |-> [name |-> "Al", role |-> "groomsman", height |-> Rat(160, 1),
                  weight |-> Rat(55, 1), fit_preference |-> "regular", unit |-> "metric"],
      recommendation |-> [size |-> <<"4", "2", "R">>, confidence |-> 75]],
     [member |-> [name |-> "Bo", role |-> "groomsman", height |-> Rat(159, 1),
                  weight |-> Rat(54, 1), fit_preference |-> "regular", unit |-> "metric"],
      recommendation |-> [size |-> <<"4", "4", "R">>, confidence |-> 70]],
     [member |-> [name |-> "Cy", role |-> "groomsman", height |-> Rat(200, 1),
                  weight |-> Rat(120, 1), fit_preference |-> "regular", unit |-> "metric"],
      recommendation |-> [size |-> <<"4", "6", "R">>, confidence |-> 75]],
     [member |-> [name |-> "Di", role |-> "groomsman", height |-> Rat(201, 1),
                  weight |-> Rat(121, 1), fit_preference |-> "regular", unit |-> "metric"],
      recommendation |-> [size |-> <<"5", "0", "R">>, confidence |-> 75]],
     [member |-> [name |-> "Ed", role |-> "groomsman", height |-> Rat(70, 1),
                  weight |-> Rat(170, 1), fit_preference |-> "regular", unit |-> "imperial"],
      recommendation |-> [size |-> <<"4", "2", "R">>, confidence |-> 65]],
     [member |-> [name |-> "Flo", role |-> "groomsman", height |-> Rat(180, 1),
                  weight |-> Rat(80, 1), fit_preference |-> "regular", unit |-> "metric"],
      recommendation |-> [size |-> <<"4", "4", "R">>, confidence |-> 69]]}

\* Longest member_recs list handed to the two functions
MaxRecs == 5

\* Orders created for one wedding group
MaxOrders == 2

\* Client addresses
Clients == {"10.0.0.1", "10.0.0.2"}

\* Requests answered in one run of the backend, the seconds that pass
\* between two of them, and the last second of the run
MaxRequests == 3
TickSteps == {299, 300}
MaxTime == 300

\* WeddingDetails objects (the field the engine reads)
Weddings == [style : WeddingStyle]

\* Values of random.random(), in hundredths: below every positive
\* adjustment probability, between 0.05 and 0.1, and above all of them.
RandomDraws == {0, 7, 50}

\* Minimal inputs: a few measurements, every fit style and body type and an
\* unknown one of each, the advanced measurements absent, complete, partial,
\* and complete with a zero.
MinimalMeasurements ==
    {[height |-> Rat(h, 1), weight |-> Rat(w, 100), unit |-> "metric"] :
        h \in {5, 160, 185, 204}, w \in {5, 200, 6500, 12100}}
    \cup {[height |-> Rat(70, 1), weight |-> Rat(150, 1), unit |-> "imperial"]}

AdvancedMeasurements ==
    {[chest |-> NoneFloat, waist |-> NoneFloat, sleeve |-> NoneFloat, inseam |-> NoneFloat],
     [chest |-> SomeFloat(42), waist |-> SomeFloat(32), sleeve |-> SomeFloat(25),
      inseam |-> SomeFloat(32)],
     [chest |-> SomeFloat(52), waist |-> NoneFloat, sleeve |-> NoneFloat, inseam |-> NoneFloat],
     [chest |-> SomeFloat(52), waist |-> SomeFloat(40), sleeve |-> SomeFloat(25),
      inseam |-> SomeFloat(0)]}

MinimalRoles == {NoneStr, "groom", "groomsman", "father_of_bride", "ring_bearer", "officiant"}

AllMinimalInputs ==
    {[height |-> m.height, weight |-> m.weight, unit |-> m.unit,
      fit_style |-> f, body_type |-> b,
      chest |-> a.chest, waist |-> a.waist, sleeve |-> a.sleeve, inseam |-> a.inseam,
      wedding_role |-> r] :
        m \in MinimalMeasurements, f \in FitPreference \cup {"loose"},
        b \in {"athletic", "regular", "broad", "slim"},
        a \in AdvancedMeasurements, r \in MinimalRoles}

MinimalInputs ==
    {x \in AllMinimalInputs :
        ~RoundingSensitive(IF x.wedding_role \in WeddingRole THEN x.wedding_role
                           ELSE "groom", x)}

MinimalWeddingDetails == {NoWeddingDetails, [style |-> "black_tie"], [style |-> "casual"]}

\* No response yet
NoResponse == [success |-> FALSE, error |-> "<pending>"]

VARIABLES
    members,        \* WeddingGroup.members: list of members, in add order
    coordinator,    \* WeddingGroup.coordinator: a member or None
    added,          \* history: the arguments of the add_member calls so far
    member,         \* the WeddingPartyMember passed to the engine
    wedding,        \* the WeddingDetails passed to the engine
    calls,          \* the calls of get_role_based_recommendation made so far
    heap,           \* contents of the list objects allocated so far
    minimal_input,  \* the MinimalSizingInput passed to get_minimal_recommendation
    wedding_details,\* its wedding_details argument (None by default)
    response,       \* the dict get_minimal_recommendation returned
    labels,         \* the body types the two classifiers returned for member
    analysis,       \* the outcome of analyze_group_consistency on the group
    cache,          \* MLEnhancedRailwayBackend.cache: cache key -> stored response
    request_counts, \* its request_counts: client -> minute window -> count
    now,            \* time.time(), in seconds since the backend started
    served,         \* history: the requests answered so far, with the answers
    threads,        \* the request threads inside check_rate_limit: position
                    \* and local current_count of each
    admitted,       \* history: the number of requests check_rate_limit let in
    orders,         \* the KCTWeddingOrder objects created so far
    member_recs     \* the member_recs list passed to the scoring functions

groupVars == <<members, coordinator, added>>
recVars == <<member, wedding, calls, heap>>
minVars == <<minimal_input, wedding_details, response>>
backendVars == <<cache, request_counts, now, served, threads, admitted>>
extVars == <<labels, analysis, cache, request_counts, now, served, threads,
             admitted, orders, member_recs>>

vars == <<members, coordinator, added, member, wedding, calls, heap,
          minimal_input, wedding_details, response, labels, analysis,
          cache, request_counts, now, served, threads, admitted, orders,
          member_recs>>

\* =====================================================================
\* WeddingGroup (wedding_group_coordination.py)
\* =====================================================================

\* A member object as far as the group is concerned: identity and role.
GroupMember == [id : MemberIds, role : WeddingRole]

\* WeddingGroup(id, wedding_details): members = [], coordinator = NoMember
WeddingGroupInit ==
    /\ members = << >>
    /\ coordinator = NoMember
    /\ added = << >>

\* No engine call is in progress.
NoMeasurement == [role |-> "guests", height |-> Rat(1, 1), weight |-> Rat(1, 1),
                  fit_preference |-> "regular", unit |-> "metric"]

EngineIdle ==
    /\ member = NoMeasurement
    /\ wedding = [style |-> "formal"]
    /\ calls = << >>
    /\ heap = << >>

NoMinimalInput ==
    [height |-> Rat(1, 1), weight |-> Rat(1, 1), unit |-> "metric",
     fit_style |-> "regular", body_type |-> "regular",
     chest |-> NoneFloat, waist |-> NoneFloat, sleeve |-> NoneFloat,
     inseam |-> NoneFloat, wedding_role |-> NoneStr]

MinimalIdle ==
    /\ minimal_input = NoMinimalInput
    /\ wedding_details = NoWeddingDetails
    /\ response = NoResponse

\* No classification made yet
NoLabels == [ml |-> "None", wedding |-> "None"]

\* The components outside the wedding sizing engine are not in use.
NoAnalysis == [status |-> "None"]

\* No request thread is inside check_rate_limit
NoThreads == << >>

\* MLEnhancedRailwayBackend(): empty cache, no request counted
BackendInit ==
    /\ cache = << >>
    /\ request_counts = << >>
    /\ now = 0
    /\ served = << >>
    /\ threads = NoThreads
    /\ admitted = 0

ExtIdle ==
    /\ labels = NoLabels
    /\ analysis = NoAnalysis
    /\ orders = << >>
    /\ member_recs = << >>
    /\ BackendInit

GroupInit == WeddingGroupInit /\ EngineIdle /\ MinimalIdle /\ ExtIdle

\* A variant of add_member that lets every qualifying member take over the
\* coordinator role (the `not self.coordinator` test dropped).
add_member_reassigning(m) ==
    /\ members' = Append(members, m)
    /\ coordinator' = IF m.role \in {"groom", "best_man"}
                      THEN m ELSE coordinator
    /\ added' = Append(added, m)

\* WeddingGroup.add_member
add_member(m) ==
    /\ members' = Append(members, m)
    /\ coordinator' = IF coordinator = NoMember /\ m.role \in {"groom", "best_man"}
                      THEN m ELSE coordinator
    /\ added' = Append(added, m)

AddMember ==
    /\ Len(members) < MaxMembers
    /\ \E m \in GroupMember : add_member(m)
    /\ UNCHANGED <<recVars, minVars, extVars>>

GroupNext == AddMember

SpecGroup == GroupInit /\ [][GroupNext]_vars

\* =====================================================================
\* Calls of WeddingSizingEngine.get_role_based_recommendation
\* =====================================================================

GroupIdle ==
    /\ members = << >>
    /\ coordinator = NoMember
    /\ added = << >>

RecInit ==
    /\ GroupIdle
    /\ MinimalIdle
    /\ ExtIdle
    /\ member \in Members
    /\ wedding \in Weddings
    /\ calls = << >>
    /\ heap = << >>

\* One call of get_role_based_recommendation(member, wedding)
GetRoleBasedRecommendation ==
    /\ Len(calls) < MaxCalls
    /\ \E draw \in RandomDraws :
          LET out == get_role_based_recommendation(member, wedding, draw, heap)
          IN  /\ calls' = Append(calls, out.call)
              /\ heap' = out.heap
    /\ UNCHANGED <<member, wedding>>
    /\ UNCHANGED <<groupVars, minVars, extVars>>

RecNext == GetRoleBasedRecommendation

SpecRec == RecInit /\ [][RecNext]_vars

\* =====================================================================
\* Calls of WeddingSizingEngine.get_minimal_recommendation
\* =====================================================================

MinInit ==
    /\ GroupIdle
    /\ ExtIdle
    /\ member = NoMeasurement
    /\ wedding = [style |-> "formal"]
    /\ calls = << >>
    /\ heap = << >>
    /\ minimal_input \in MinimalInputs
    /\ wedding_details \in MinimalWeddingDetails
    /\ response = NoResponse

\* One call of get_minimal_recommendation(minimal_input, wedding_details)
GetMinimalRecommendation ==
    /\ response = NoResponse
    /\ \E draw \in RandomDraws :
          \E out \in {get_minimal_recommendation(minimal_input, wedding_details,
                                                 draw, heap)} :
              /\ response' = out.response
              /\ calls' = calls \o out.inner
              /\ heap' = out.heap
    /\ UNCHANGED <<minimal_input, wedding_details, member, wedding>>
    /\ UNCHANGED <<groupVars, extVars>>

MinNext == GetMinimalRecommendation

SpecMin == MinInit /\ [][MinNext]_vars

\* =====================================================================
\* Calls of get_role_based_recommendation on boundary and invalid members
\* =====================================================================

EdgeInit ==
    /\ GroupIdle
    /\ MinimalIdle
    /\ ExtIdle
    /\ member \in EdgeMembers
    /\ wedding \in Weddings
    /\ calls = << >>
    /\ heap = << >>

SpecEdge == EdgeInit /\ [][RecNext]_vars

\* =====================================================================
\* The two body type classifiers on one pair of measurements
\* =====================================================================

ClassifyInit ==
    /\ GroupIdle
    /\ MinimalIdle
    /\ member \in ClassifyInputs
    /\ wedding = [style |-> "formal"]
    /\ calls = << >>
    /\ heap = << >>
    /\ labels = NoLabels
    /\ analysis = NoAnalysis
    /\ orders = << >>
    /\ member_recs = << >>
    /\ BackendInit

\* AnthropometricValidator.validate_measurements(height, weight) and
\* WeddingSizingEngine._classify_body_type(height, weight) on the same pair
ClassifyBodyType ==
    /\ labels = NoLabels
    /\ labels' = [ml |-> validate_measurements(member.height, member.weight,
                                               member.unit).body_type,
                  wedding |-> _classify_body_type(member.height, member.weight)]
    /\ UNCHANGED <<groupVars, recVars, minVars, analysis, backendVars, orders,
                   member_recs>>

ClassifyNext == ClassifyBodyType

SpecClassify == ClassifyInit /\ [][ClassifyNext]_vars

\* =====================================================================
\* A wedding group built member by member and then analysed
\* =====================================================================

PartyInit ==
    /\ WeddingGroupInit
    /\ MinimalIdle
    /\ ExtIdle
    /\ member = NoMeasurement
    /\ wedding \in PartyWeddings
    /\ calls = << >>
    /\ heap = << >>

\* group.add_member(m) before the analysis
AddPartyMember ==
    /\ analysis = NoAnalysis
    /\ Len(members) < MaxMembers
    /\ \E m \in PartyMembers : add_member(m)
    /\ UNCHANGED <<recVars, minVars, extVars>>

\* GroupConsistencyAnalyzer.analyze_group_consistency(group), the group
\* holding `members` and the wedding details `wedding`
AnalyzeGroupConsistency ==
    /\ analysis = NoAnalysis
    /\ \E draws \in [1..Len(members) -> PartyDraws] :
          \E out \in {analyze_group_consistency(members, wedding, draws, heap)} :
              /\ heap' = out.heap
              /\ IF out.status = "KeyError"
                 THEN analysis' = [status |-> "KeyError"]
                 ELSE \E overall \in round(overall_score(
                                                out.size_consistency, out.visual_harmony,
                                                out.role_hierarchy, out.practical_fitting), 3),
                         harmony \in round(out.visual_harmony, 3) :
                         analysis' = [status |-> "returned",
                                      member_recommendations |-> out.member_recommendations,
                                      size_consistency |-> out.size_consistency,
                                      visual_harmony |-> out.visual_harmony,
                                      role_hierarchy |-> out.role_hierarchy,
                                      practical_fitting |-> out.practical_fitting,
                                      overall_score |-> overall,
                                      visual_harmony_score |-> harmony,
                                      coordination_recommendations |->
                                          out.coordination_recommendations,
                                      fitting_challenges |-> out.fitting_challenges,
                                      size_distribution |-> out.size_distribution,
                                      bulk_order_optimization |-> out.bulk_order_optimization]
    /\ UNCHANGED <<groupVars, member, wedding, calls, minVars, labels, backendVars, orders,
                   member_recs>>

PartyNext == AddPartyMember \/ AnalyzeGroupConsistency

SpecParty == PartyInit /\ [][PartyNext]_vars

\* =====================================================================
\* Requests to MLEnhancedRailwayBackend.process_sizing_request
\* =====================================================================

RailwayInit ==
    /\ GroupIdle
    /\ EngineIdle
    /\ MinimalIdle
    /\ labels = NoLabels
    /\ analysis = NoAnalysis
    /\ orders = << >>
    /\ member_recs = << >>
    /\ BackendInit

\* One call of process_sizing_request(request_data, client_ip)
ProcessSizingRequest ==
    /\ Len(served) < MaxRequests
    /\ \E request_data \in SizingRequests, client_ip \in Clients :
          \E out \in process_sizing_request(request_data, client_ip, cache,
                                            request_counts, now) :
              /\ cache' = out.cache
              /\ request_counts' = out.request_counts
              /\ served' = Append(served, [request |-> request_data,
                                           client_ip |-> client_ip,
                                           time |-> now,
                                           response |-> out.response])
    /\ UNCHANGED <<now, groupVars, recVars, minVars, labels, analysis, threads,
                   admitted, orders,
                   member_recs>>

\* Time passes between two requests
Tick ==
    /\ \E step \in TickSteps :
          /\ now + step <= MaxTime
          /\ now' = now + step
    /\ UNCHANGED <<cache, request_counts, served, groupVars, recVars, minVars,
                   labels, analysis, threads, admitted, orders,
                   member_recs>>

RailwayNext == ProcessSizingRequest \/ Tick

SpecRailway == RailwayInit /\ [][RailwayNext]_vars

\* =====================================================================
\* Bursts of requests to process_sizing_request: any number of calls, of
\* which `served` keeps the latest
\* =====================================================================
BurstRequest ==
    /\ \E request_data \in BurstRequests, client_ip \in Clients :
          \E out \in process_sizing_request(request_data, client_ip, cache,
                                            request_counts, now) :
              /\ cache' = out.cache
              /\ request_counts' = out.request_counts
              /\ served' = <<[request |-> request_data,
                              client_ip |-> client_ip,
                              time |-> now,
                              response |-> out.response]>>
    /\ UNCHANGED <<now, groupVars, recVars, minVars, labels, analysis, threads,
                   admitted, orders,
                   member_recs>>

BurstNext == BurstRequest \/ Tick

SpecBurst == RailwayInit /\ [][BurstNext]_vars

\* =====================================================================
\* check_rate_limit run by concurrent request threads for one client.  The
\* method takes no lock: the read of the window counter and the write of
\* the incremented value are separate steps that other threads interleave.
\* =====================================================================

\* A thread enters check_rate_limit: it creates the client's dictionary,
\* drops the old windows and reads current_count
ReadCurrentCount(thread, client_ip) ==
    /\ thread \notin DOMAIN threads
    /\ admitted + Cardinality(DOMAIN threads) < MaxAdmitted
    /\ LET minute_window == now \div 60
           own == IF client_ip \in DOMAIN request_counts
                  THEN request_counts[client_ip] ELSE << >>
           kept == [k \in {k \in DOMAIN own : ~(k < minute_window - 1)} |-> own[k]]
       IN  /\ request_counts' = (client_ip :> kept) @@ request_counts
           /\ threads' = (thread :> [client_ip |-> client_ip,
                                     minute_window |-> minute_window,
                                     current_count |->
                                         IF minute_window \in DOMAIN kept
                                         THEN kept[minute_window] ELSE 0])
                          @@ threads
    /\ UNCHANGED <<admitted, cache, now, served, groupVars, recVars, minVars,
                   labels, analysis, orders,
                   member_recs>>

\* The thread goes on: it returns False at the limit, and otherwise writes
\* current_count + 1 and returns True
WriteCurrentCount(thread) ==
    /\ thread \in DOMAIN threads
    /\ LET local == threads[thread]
       IN  IF local.current_count >= rate_limit
           THEN UNCHANGED <<request_counts, admitted>>
           ELSE /\ request_counts' =
                      [request_counts EXCEPT ![local.client_ip] =
                          (local.minute_window :> local.current_count + 1) @@ @]
                /\ admitted' = admitted + 1
    /\ threads' = [t \in DOMAIN threads \ {thread} |-> threads[t]]
    /\ UNCHANGED <<cache, now, served, groupVars, recVars, minVars, labels,
                   analysis, orders,
                   member_recs>>

RaceNext ==
    \E thread \in RaceThreads :
        \/ ReadCurrentCount(thread, "10.0.0.1")
        \/ WriteCurrentCount(thread)

SpecRace == RailwayInit /\ [][RaceNext]_vars

\* =====================================================================
\* _calculate_practical_fitting and _identify_fitting_challenges on a
\* member_recs list
\* =====================================================================
FittingInit ==
    /\ GroupIdle
    /\ EngineIdle
    /\ MinimalIdle
    /\ labels = NoLabels
    /\ analysis = NoAnalysis
    /\ orders = << >>
    /\ BackendInit
    /\ member_recs \in UNION {[1..n -> FittingRecs] : n \in 0..MaxRecs}

CalculatePracticalFitting ==
    /\ "practical_fitting" \notin DOMAIN analysis
    /\ analysis' = [status |-> "returned",
                    practical_fitting |-> _calculate_practical_fitting(member_recs)]
                   @@ analysis
    /\ UNCHANGED <<groupVars, recVars, minVars, labels, backendVars, orders,
                   member_recs>>

IdentifyFittingChallenges ==
    /\ "fitting_challenges" \notin DOMAIN analysis
    /\ analysis' = [status |-> "returned",
                    fitting_challenges |-> _identify_fitting_challenges(member_recs)]
                   @@ analysis
    /\ UNCHANGED <<groupVars, recVars, minVars, labels, backendVars, orders,
                   member_recs>>

FittingNext == CalculatePracticalFitting \/ IdentifyFittingChallenges

SpecFitting == FittingInit /\ [][FittingNext]_vars

\* =====================================================================
\* Orders of a wedding group with KCTmenswearIntegration.  The integration
\* holds engines of its own; their list objects do not reach the fields
\* kept of an order, and `heap` is left alone.
\* =====================================================================

\* wedding_group.add_member(member) for a groom or a ring bearer of the
\* party, before and after orders are created
AddOrderMember ==
    /\ Len(members) < MaxMembers
    /\ \E m \in {p \in PartyMembers : p.name \in {"Adam", "Eli"}} : add_member(m)
    /\ UNCHANGED <<recVars, minVars, extVars>>

\* kct_integration.create_wedding_order(wedding_group)
CreateWeddingOrder ==
    /\ Len(orders) < MaxOrders
    /\ \E draws \in [1..Len(members) -> PartyDraws] :
          \E out \in {create_wedding_order(
                          member_recommendations(members, wedding, draws, << >>, << >>),
                          members, wedding, now)} :
              /\ out.status = "returned"
              /\ orders' = Append(orders, out.kct_order)
    /\ UNCHANGED <<groupVars, recVars, minVars, labels, analysis, backendVars,
                   member_recs>>

\* kct_integration.submit_order_to_kct(kct_order) for an order created before
SubmitOrderToKct ==
    /\ orders # << >>
    /\ \E draws \in [1..Len(members) -> PartyDraws] :
          \E group_analysis \in {analyze_group_consistency(members, wedding,
                                                            draws, << >>)} :
              \E k \in 1..Len(orders) :
                  orders' = [orders EXCEPT ![k] =
                                submit_order_to_kct(orders[k], group_analysis,
                                                    now).kct_order]
    /\ UNCHANGED <<groupVars, recVars, minVars, labels, analysis, backendVars,
                   member_recs>>

OrderNext == AddOrderMember \/ CreateWeddingOrder \/ SubmitOrderToKct

SpecOrder == PartyInit /\ [][OrderNext]_vars

\* The calls that returned a recommendation
Returned == {i \in 1..Len(calls) : calls[i].status = "returned"}

\* The contents of a dict's alterations list
Alterations(dict) == heap[dict.alterations]

\* ---------------------------------------------------------------------
\* C1
\* ---------------------------------------------------------------------
Qualifying(s) == {i \in 1..Len(s) : s[i].role \in {"groom", "best_man"}}

FirstQualifying(s) ==
    IF Qualifying(s) = {} THEN NoMember
    ELSE s[CHOOSE i \in Qualifying(s) : \A j \in Qualifying(s) : i <= j]

\* C1: after any sequence of add_member calls, members holds the added
\* members in add order, coordinator is the first member added whose role is
\* groom or best_man (None when there is none), and once coordinator is set
\* no later add_member changes it.
C1_CoordinatorFirstQualifying ==
    /\ [](members = added /\ coordinator = FirstQualifying(added))
    /\ [][coordinator # NoMember => coordinator' = coordinator]_vars

\* A group to which a groomsman, then a best man, then a groom were added:
\* the best man is the coordinator and the later groom did not replace him.
C1_Witness ==
    /\ Len(members) = 3
    /\ members[1].role = "groomsman"
    /\ members[2].role = "best_man"
    /\ members[3].role = "groom"
    /\ coordinator = members[2]

\* ---------------------------------------------------------------------
\* C2
\* ---------------------------------------------------------------------
\* C2: two calls of get_role_based_recommendation with equal member and
\* equal wedding details return the same size, confidence, confidenceLevel,
\* bodyType and alterations, for every role and every wedding style.
C2_SameResultForEqualInputs ==
    \A i, j \in Returned :
        /\ calls[i].enhanced.size = calls[j].enhanced.size
        /\ calls[i].enhanced.confidence = calls[j].enhanced.confidence
        /\ calls[i].enhanced.confidenceLevel = calls[j].enhanced.confidenceLevel
        /\ calls[i].enhanced.bodyType = calls[j].enhanced.bodyType
        /\ Alterations(calls[i].enhanced) = Alterations(calls[j].enhanced)

\* ---------------------------------------------------------------------
\* C3
\* ---------------------------------------------------------------------
\* The ladders as the claim states them: for each fit the rungs
\* <<upper bound of the ratio in hundredths, numeric base>> in order, the
\* base beyond the last rung, and the suffix letter.
C3_Rungs ==
    [slim |-> <<<<80, 38>>, <<90, 40>>, <<100, 42>>, <<110, 44>>>>,
     relaxed |-> <<<<70, 40>>, <<80, 42>>, <<90, 44>>, <<100, 46>>, <<110, 48>>>>,
     regular |-> <<<<75, 38>>, <<85, 40>>, <<95, 42>>, <<105, 44>>, <<115, 46>>,
                   <<125, 48>>>>]

C3_Terminal == [slim |-> 46, relaxed |-> 50, regular |-> 50]

C3_Suffix == [slim |-> "S", relaxed |-> "R", regular |-> "R"]

C3_Base(fit, ratio) ==
    LET rungs == C3_Rungs[fit]
        below == {k \in 1..Len(rungs) : RLess(ratio, Rat(rungs[k][1], 100))}
    IN  IF below = {} THEN C3_Terminal[fit]
        ELSE rungs[CHOOSE k \in below : \A l \in below : k <= l][2]

CallRatio(c) == height_weight_ratio(c.height_cm, c.weight_kg)

\* Ratios 0.60, 0.61, ... 1.30 and the numeric base the ladder of each fit
\* gives them
C3_RatioGrid == {Rat(k, 100) : k \in 60..130}

C3_GridBase ==
    [f \in FitPreference |->
        [r \in C3_RatioGrid |-> int(AllButLast(ladder_size(f, r)))]]

\* C3: the base size computed by _get_base_recommendation follows the ladder
\* of the fit it was called with (numeric base by ratio, suffix by fit unless
\* the long marker replaced it), and within one fit the numeric base never
\* decreases as the ratio increases: a ratio of the grid at least as large
\* gets a base at least as large, a smaller one a base at most as large.
C3_BaseFollowsLadder ==
    \A i \in Returned :
        LET c == calls[i]
            size == c.base_before.dict.size
            base == int(AllButLast(size))
        IN  /\ Len(size) = 3
            /\ base = C3_Base(c.preferred_fit, CallRatio(c))
            /\ LastChar(size) \in {C3_Suffix[c.preferred_fit], "L"}
            /\ \A r \in C3_RatioGrid :
                  /\ RLeq(CallRatio(c), r) => base <= C3_GridBase[c.preferred_fit][r]
                  /\ RLeq(r, CallRatio(c)) => C3_GridBase[c.preferred_fit][r] <= base

\* A call with fit regular whose ratio lies between 0.75 and 0.85 and whose
\* base is 40.
C3_Witness ==
    \E i \in Returned :
        /\ calls[i].preferred_fit = "regular"
        /\ RLeq(Rat(75, 100), CallRatio(calls[i]))
        /\ RLess(CallRatio(calls[i]), Rat(85, 100))
        /\ calls[i].base_before.dict.size = <<"4", "0", "R">>

\* ---------------------------------------------------------------------
\* C4
\* ---------------------------------------------------------------------
\* C4: _classify_body_type returns the first match of bmi < 18.5 Slim,
\* bmi > 30 Broad, ratio > 1.1 Athletic, ratio < 0.85 Slender, else Regular.
C4_BodyTypeDecisionOrder ==
    \A i \in Returned :
        LET c == calls[i]
            label == c.base_before.dict.bodyType
            slim == bmi_less(c.height_cm, c.weight_kg, Rat(185, 10))
            broad == bmi_greater(c.height_cm, c.weight_kg, Rat(30, 1))
            athletic == RLess(Rat(110, 100), CallRatio(c))
            slender == RLess(CallRatio(c), Rat(85, 100))
        IN  /\ (label = "Slim") <=> slim
            /\ (label = "Broad") <=> (~slim /\ broad)
            /\ (label = "Athletic") <=> (~slim /\ ~broad /\ athletic)
            /\ (label = "Slender") <=> (~slim /\ ~broad /\ ~athletic /\ slender)
            /\ (label = "Regular") <=> (~slim /\ ~broad /\ ~athletic /\ ~slender)

\* A call classified Broad although its ratio is above 1.1 (the bmi test
\* comes first), i.e. the order of the tests decides.
C4_Witness ==
    \E i \in Returned :
        /\ calls[i].base_before.dict.bodyType = "Broad"
        /\ RLess(Rat(110, 100), CallRatio(calls[i]))

\* ---------------------------------------------------------------------
\* C5
\* ---------------------------------------------------------------------
\* C5: the confidence of the recommendation returned by
\* get_role_based_recommendation lies in [0,1] after the role and style
\* boosts have been added.
C5_ConfidenceInUnitInterval ==
    \A i \in Returned :
        /\ 0 <= calls[i].enhanced.confidence
        /\ calls[i].enhanced.confidence <= 100

\* A call whose base confidence plus boosts exceeds 1.0 and was clamped.
C5_Witness ==
    \E i \in Returned :
        /\ calls[i].base_before.dict.confidence
             + role_adjustments[member.role].confidence_boost
             + style_confidence_boost(wedding.style) > 100
        /\ calls[i].enhanced.confidence = 100

\* ---------------------------------------------------------------------
\* C7
\* ---------------------------------------------------------------------
\* C7: the confidenceLevel of every recommendation is obtained from its
\* confidence by the one mapping >= 0.85 Very High, >= 0.75 High, >= 0.65
\* Medium, >= 0.55 Low, else Very Low, and
\* EnhancedConfidenceScorer.get_confidence_level and
\* WeddingSizingEngine._get_confidence_level agree on it.
C7_SharedLevel(confidence) ==
    IF confidence >= 85 THEN "Very High"
    ELSE IF confidence >= 75 THEN "High"
    ELSE IF confidence >= 65 THEN "Medium"
    ELSE IF confidence >= 55 THEN "Low"
    ELSE "Very Low"

C7_OneSharedLevelMapping ==
    \A i \in Returned :
        LET e == calls[i].enhanced
        IN  /\ e.confidenceLevel = C7_SharedLevel(e.confidence)
            /\ _get_confidence_level(e.confidence) = get_confidence_level(e.confidence)

\* ---------------------------------------------------------------------
\* C8
\* ---------------------------------------------------------------------
\* C8: after _apply_wedding_enhancements(base_rec, ...) returns, every field
\* of base_rec, including the contents of its alterations list, equals its
\* value before the call.
C8_BaseRecommendationUnaltered ==
    \A i \in Returned :
        /\ calls[i].base_rec = calls[i].base_before.dict
        /\ Alterations(calls[i].base_rec) = calls[i].base_before.alterations

\* ---------------------------------------------------------------------
\* C10
\* ---------------------------------------------------------------------
\* The member's own height in centimetres
OwnHeightCm == to_height_cm(member.height, member.unit)

\* C10 as stated: the size ends with L exactly when the member's own height
\* in centimetres is greater than 200; then the numeric base is that of the
\* ladder; otherwise the size ends with the fit suffix S or R.
C10_LongMarkerByOwnHeight ==
    \A i \in Returned :
        LET c == calls[i]
            size == c.enhanced.size
        IN  /\ (LastChar(size) = "L") <=> RLess(Rat(200, 1), OwnHeightCm)
            /\ int(AllButLast(size)) = C3_Base(c.preferred_fit, CallRatio(c))
            /\ LastChar(size) # "L" => LastChar(size) = C3_Suffix[c.preferred_fit]

\* C10 as amended: the size ends with L exactly when the member's height
\* multiplied by the role's base_multiplier and converted to centimetres is
\* greater than 200; then L replaces the fit suffix and the numeric base is
\* that of the ladder; otherwise (including 185 to 200 cm) the size ends with
\* the fit suffix S or R.
C10_LongMarkerByAdjustedHeight ==
    \A i \in Returned :
        LET c == calls[i]
            size == c.enhanced.size
        IN  /\ (LastChar(size) = "L") <=> RLess(Rat(200, 1), c.height_cm)
            /\ Len(size) = 3
            /\ int(AllButLast(size)) = C3_Base(c.preferred_fit, CallRatio(c))
            /\ LastChar(size) # "L" => LastChar(size) = C3_Suffix[c.preferred_fit]

\* A father of the bride of 197 cm, whose adjusted height is 200.94 cm:
\* the size carries the long marker although his own height is below 200.
C10_Witness ==
    \E i \in Returned :
        /\ RLess(Rat(200, 1), calls[i].height_cm)
        /\ RLeq(OwnHeightCm, Rat(200, 1))
        /\ LastChar(calls[i].enhanced.size) = "L"

\* ---------------------------------------------------------------------
\* C6
\* ---------------------------------------------------------------------
\* C6: the confidence field in the response of get_minimal_recommendation
\* lies in [0,1] for every valid minimal input, including inputs that supply
\* all four advanced measurements.
C6_MinimalConfidenceInUnitInterval ==
    response.success => (0 <= response.confidence /\ response.confidence <= 100)

\* ---------------------------------------------------------------------
\* C9
\* ---------------------------------------------------------------------
\* A two-digit even numeric base between 38 and 54 followed by one suffix
\* letter S, R or L
C9_WellFormedSize(size) ==
    /\ Len(size) = 3
    /\ isdigit(FirstTwo(size))
    /\ int(FirstTwo(size)) \in {38, 40, 42, 44, 46, 48, 50, 52, 54}
    /\ LastChar(size) \in {"S", "R", "L"}

\* C9: every size returned by get_role_based_recommendation and every
\* recommended_size returned by get_minimal_recommendation is a two-digit
\* even numeric base between 38 and 54 followed by one suffix letter.
C9_SizesWellFormed ==
    /\ \A i \in Returned : C9_WellFormedSize(calls[i].enhanced.size)
    /\ response.success => C9_WellFormedSize(response.recommended_size)


\* ---------------------------------------------------------------------
\* C11
\* ---------------------------------------------------------------------
InvalidInput(m) ==
    \/ RLeq(m.height, Rat(0, 1))
    \/ RLeq(m.weight, Rat(0, 1))
    \/ m.fit_preference \notin {"slim", "regular", "relaxed"}
    \/ m.unit \notin {"metric", "imperial"}

\* C11: get_role_based_recommendation never returns a recommendation for a
\* member whose height or weight is zero or negative, whose fit preference
\* is not slim, regular or relaxed, or whose unit is not metric or imperial.
C11_InvalidInputNeverSized ==
    InvalidInput(member) => Returned = {}

\* ---------------------------------------------------------------------
\* C17
\* ---------------------------------------------------------------------
\* The rungs of the ladder of `fit` whose threshold the ratio is equal to
C17_TiedRungs(fit, ratio) ==
    {k \in 1..Len(C3_Rungs[fit]) : ratio = Rat(C3_Rungs[fit][k][1], 100)}

\* The sizes adjacent to the threshold of rung k: the one below it and the
\* one above it
C17_LowerSize(fit, k) == C3_Rungs[fit][k][2]

C17_HigherSize(fit, k) ==
    IF k < Len(C3_Rungs[fit]) THEN C3_Rungs[fit][k + 1][2] ELSE C3_Terminal[fit]

\* C17 as stated: when the height-weight ratio is exactly equal to a ladder
\* threshold, the size returned is the lower of the two sizes adjacent to
\* that threshold.
C17_TieGoesToLowerSize ==
    \A i \in Returned :
        calls[i].preferred_fit \in FitPreference =>
            \A k \in C17_TiedRungs(calls[i].preferred_fit, CallRatio(calls[i])) :
                int(FirstTwo(calls[i].enhanced.size))
                    = C17_LowerSize(calls[i].preferred_fit, k)

\* C17 amended: when the height-weight ratio is exactly equal to a ladder
\* threshold, the size returned is the higher of the two sizes adjacent to
\* that threshold (the tests are `ratio < threshold`).
C17_TieGoesToHigherSize ==
    \A i \in Returned :
        calls[i].preferred_fit \in FitPreference =>
            \A k \in C17_TiedRungs(calls[i].preferred_fit, CallRatio(calls[i])) :
                int(FirstTwo(calls[i].enhanced.size))
                    = C17_HigherSize(calls[i].preferred_fit, k)

\* A call with fit regular and ratio exactly 0.85 that returned 42R
C17_Witness ==
    \E i \in Returned :
        /\ calls[i].preferred_fit = "regular"
        /\ CallRatio(calls[i]) = Rat(85, 100)
        /\ calls[i].enhanced.size = <<"4", "2", "R">>

\* ---------------------------------------------------------------------
\* C19
\* ---------------------------------------------------------------------
\* The member is metric and inside the accepted physical range
InPhysicalRange(m) ==
    /\ m.unit = "metric"
    /\ RLeq(Rat(120, 1), m.height) /\ RLeq(m.height, Rat(250, 1))
    /\ RLeq(Rat(40, 1), m.weight) /\ RLeq(m.weight, Rat(200, 1))

\* C19: for every metric input in the accepted physical range and every
\* role multiplier, the height-weight ratio is above every ladder threshold
\* and the numeric base is the terminal one of the fit's ladder (46 for
\* slim, 50 for regular and relaxed).
C19_TerminalRungInRange ==
    InPhysicalRange(member) /\ member.fit_preference \in FitPreference =>
        \A i \in Returned :
            /\ \A t \in LadderThresholds : RLess(Rat(t, 100), CallRatio(calls[i]))
            /\ int(FirstTwo(calls[i].enhanced.size))
                 = C3_Terminal[calls[i].preferred_fit]

\* A groomsman of 250 cm and 40 kg (the smallest ratio of the range, scaled
\* by 0.98) who was given the terminal slim base
C19_Witness ==
    /\ member.role = "groomsman"
    /\ member.height = Rat(250, 1)
    /\ member.weight = Rat(40, 1)
    /\ \E i \in Returned :
          /\ calls[i].preferred_fit = "slim"
          /\ int(FirstTwo(calls[i].enhanced.size)) = 46


\* ---------------------------------------------------------------------
\* C18: AnthropometricValidator._classify_body_type and
\* WeddingSizingEngine._classify_body_type return the same label for every
\* positive height_cm and weight_kg.
\* ---------------------------------------------------------------------
C18_ClassifiersAgree ==
    labels # NoLabels => labels.ml = labels.wedding


\* ---------------------------------------------------------------------
\* C12: for a party with exactly one member, of any role, style, fit and
\* measurements, analyze_group_consistency computes size consistency 1.0
\* and a visual_harmony_score of at least 0.8.
\* ---------------------------------------------------------------------
C12_SingleMemberScores ==
    (Len(members) = 1 /\ analysis # NoAnalysis) =>
        /\ analysis.status = "returned"
        /\ analysis.size_consistency = Rat(1, 1)
        /\ analysis.visual_harmony_score >= 800

\* ---------------------------------------------------------------------
\* C13: overall_score is 0.4 x size consistency + 0.3 x visual harmony +
\* 0.2 x role hierarchy + 0.1 x practical fitting rounded to three
\* decimals (it lies within half a thousandth of the weighted sum), every
\* sub-score lies in [0, 1] and so does overall_score.
\* ---------------------------------------------------------------------
C13_InUnitInterval(x) == x.n >= 0 /\ x.d > 0 /\ x.n <= x.d

C13_WeightedSum ==
    RAdd(RAdd(RMul(Rat(4, 10), analysis.size_consistency),
              RMul(Rat(3, 10), analysis.visual_harmony)),
         RAdd(RMul(Rat(2, 10), analysis.role_hierarchy),
              RMul(Rat(1, 10), analysis.practical_fitting)))

C13_OverallScoreIsWeightedSum ==
    analysis.status = "returned" =>
        /\ C13_InUnitInterval(analysis.size_consistency)
        /\ C13_InUnitInterval(analysis.visual_harmony)
        /\ C13_InUnitInterval(analysis.role_hierarchy)
        /\ C13_InUnitInterval(analysis.practical_fitting)
        /\ analysis.overall_score \in 0..1000
        /\ 2 * abs(1000 * C13_WeightedSum.n - analysis.overall_score * C13_WeightedSum.d)
              <= C13_WeightedSum.d

\* A party of three whose sizes differ, so that the four sub-scores differ
C13_Witness ==
    /\ analysis.status = "returned"
    /\ Len(analysis.member_recommendations) = 3
    /\ analysis.size_consistency # Rat(1, 1)
    /\ analysis.size_consistency # analysis.visual_harmony
    /\ analysis.overall_score < 900

\* ---------------------------------------------------------------------
\* C14: the size groups of the bulk order partition the party by identical
\* size code: one group per size, its count the number of members with
\* that size, the counts summing to the number of members and equal to
\* size_distribution; bulk_discount_eligible holds exactly for count >= 3
\* and estimated_savings is (count - 1) x 25.
\* ---------------------------------------------------------------------
RECURSIVE C14_TotalCount(_, _)
C14_TotalCount(groups, sizes) ==
    IF sizes = {} THEN 0
    ELSE LET s == CHOOSE x \in sizes : TRUE
         IN  groups[s].count + C14_TotalCount(groups, sizes \ {s})

C14_BulkGroupsPartitionBySize ==
    analysis.status = "returned" =>
        LET recs == analysis.member_recommendations
            groups == analysis.bulk_order_optimization.size_groups
        IN  /\ DOMAIN groups = {recs[i].recommendation.size : i \in 1..Len(recs)}
            /\ \A s \in DOMAIN groups :
                  /\ groups[s].count =
                        Cardinality({i \in 1..Len(recs) : recs[i].recommendation.size = s})
                  /\ Len(groups[s].members) = groups[s].count
                  /\ groups[s].bulk_discount_eligible <=> groups[s].count >= 3
                  /\ groups[s].estimated_savings = (groups[s].count - 1) * 25
            /\ C14_TotalCount(groups, DOMAIN groups) = Len(recs)
            /\ DOMAIN analysis.size_distribution = DOMAIN groups
            /\ \A s \in DOMAIN groups : analysis.size_distribution[s] = groups[s].count

\* A party of three members who all get the same size: one eligible group
C14_Witness ==
    /\ analysis.status = "returned"
    /\ \E s \in DOMAIN analysis.bulk_order_optimization.size_groups :
          /\ analysis.bulk_order_optimization.size_groups[s].count = 3
          /\ analysis.bulk_order_optimization.size_groups[s].bulk_discount_eligible
          /\ analysis.bulk_order_optimization.size_groups[s].estimated_savings = 50

\* ---------------------------------------------------------------------
\* C16: the bodyType returned by get_role_based_recommendation depends
\* only on the member's height, weight and unit: two members with the same
\* measurements get the same bodyType, whatever their fit and role.
\* ---------------------------------------------------------------------
C16_BodyTypeByMeasurementsOnly ==
    analysis.status = "returned" =>
        \A i, j \in 1..Len(analysis.member_recommendations) :
            LET a == analysis.member_recommendations[i]
                b == analysis.member_recommendations[j]
            IN  (/\ a.member.height = b.member.height
                 /\ a.member.weight = b.member.weight
                 /\ a.member.unit = b.member.unit)
                => a.recommendation.bodyType = b.recommendation.bodyType


\* ---------------------------------------------------------------------
\* C15: the cache of process_sizing_request is transparent: a response
\* served from the cache carries the bodyType, alterations and measurements
\* (and size and confidence) the engine would compute for the request it is
\* served for.
\* ---------------------------------------------------------------------
C15_CacheTransparent ==
    \A i \in 1..Len(served) :
        ("cached" \in DOMAIN served[i].response /\ served[i].response.cached) =>
            \E computed \in get_size_recommendation(
                                served[i].request.height.value,
                                served[i].request.weight.value,
                                served[i].request.fit, served[i].request.unit) :
                /\ served[i].response.bodyType = computed.bodyType
                /\ served[i].response.alterations = computed.alterations
                /\ served[i].response.measurements = computed.measurements

\* ---------------------------------------------------------------------
\* C20: validate_input accepts a request exactly when its height converted
\* to centimetres lies in [120, 250] and its weight converted to kilograms
\* lies in [40, 200] (height and weight numeric, fit and unit valid), for
\* imperial as for metric input; every other request gets VALIDATION_ERROR.
\* ---------------------------------------------------------------------
C20_Qualifies(data) ==
    /\ data.height.kind = "float"
    /\ data.weight.kind = "float"
    /\ data.fit \in {"slim", "regular", "relaxed"}
    /\ data.unit \in {"metric", "imperial"}
    /\ LET height_cm == to_height_cm(data.height.value, data.unit)
           weight_kg == to_weight_kg(data.weight.value, data.unit)
       IN  /\ RLeq(Rat(120, 1), height_cm) /\ RLeq(height_cm, Rat(250, 1))
           /\ RLeq(Rat(40, 1), weight_kg) /\ RLeq(weight_kg, Rat(200, 1))

C20_AcceptsExactlyPhysicalRange ==
    \A i \in 1..Len(served) :
        "retry_after" \notin DOMAIN served[i].response =>
            IF C20_Qualifies(served[i].request)
            THEN \/ "code" \notin DOMAIN served[i].response
                 \/ served[i].response.code # "VALIDATION_ERROR"
            ELSE /\ "code" \in DOMAIN served[i].response
                 /\ served[i].response.code = "VALIDATION_ERROR"


\* ---------------------------------------------------------------------
\* C21: a cache entry is served only while it is younger than cache_ttl
\* (300 s).  A request answered by the cache finds an entry of its key
\* stored less than 300 s before; a request whose key was last stored 300 s
\* ago or earlier is not answered from the cache, and when the engine
\* returns its result replaces the entry (the cache then holds the
\* timestamp of the recomputation).
\* ---------------------------------------------------------------------
C21_Key(i) ==
    get_cache_key(served[i].request.height.value, served[i].request.weight.value,
                  served[i].request.fit, served[i].request.unit)

C21_Stored(i) ==
    /\ "cached" \in DOMAIN served[i].response
    /\ ~served[i].response.cached

C21_LastStore(i) ==
    LET stores == {j \in 1..(i - 1) : C21_Stored(j) /\ C21_Key(j) = C21_Key(i)}
    IN  IF stores = {} THEN 0 ELSE SetMax(stores)

C21_ServedOnlyWhileYoungerThanTtl ==
    /\ \A i \in 1..Len(served) :
          "cached" \in DOMAIN served[i].response =>
              LET j == C21_LastStore(i)
              IN  IF j # 0 /\ served[i].time - served[j].time < cache_ttl
                  THEN /\ served[i].response.cached
                       /\ served[i].response.timestamp = served[j].time
                  ELSE /\ ~served[i].response.cached
                       /\ served[i].response.timestamp = served[i].time
    /\ \A i \in 1..Len(served) :
          (C21_Stored(i) /\ \A k \in (i + 1)..Len(served) :
                                ~(C21_Stored(k) /\ C21_Key(k) = C21_Key(i)))
          => \A key \in C21_Key(i) :
                /\ key \in DOMAIN cache
                /\ cache[key].timestamp = served[i].time

\* An entry stored at second 0 is asked for again at second 300: the
\* request is recomputed and the entry replaced.  (Reached next to a run
\* where the entry is served at the age of 299 s.)
C21_Witness ==
    \E i \in 1..Len(served) :
        /\ C21_Stored(i)
        /\ C21_LastStore(i) # 0
        /\ served[i].time - served[C21_LastStore(i)].time = cache_ttl
        /\ \A key \in C21_Key(i) : cache[key].timestamp = served[i].time

C21_ServedAtAge299 ==
    \E i \in 1..Len(served) :
        /\ "cached" \in DOMAIN served[i].response
        /\ served[i].response.cached
        /\ served[i].time - served[i].response.timestamp = cache_ttl - 1


\* ---------------------------------------------------------------------
\* C25: per client and minute window check_rate_limit admits at most
\* rate_limit (10) requests.  A request of a client whose counter of the
\* window stands below 10 is admitted and raises the counter by one; at 10
\* it is answered 'Rate limit exceeded' (retry_after 60) whatever it asks,
\* valid or not, the counter and the cache stay as they were; the counters
\* of every other client are untouched.
\* ---------------------------------------------------------------------
C25_Count(counts, client_ip, window) ==
    IF client_ip \in DOMAIN counts /\ window \in DOMAIN counts[client_ip]
    THEN counts[client_ip][window]
    ELSE 0

C25_Windows(counts, client_ip) ==
    IF client_ip \in DOMAIN counts THEN counts[client_ip] ELSE << >>

C25_RequestStep ==
    LET exchange == served'[1]
        before == C25_Count(request_counts, exchange.client_ip, now \div 60)
        after == C25_Count(request_counts', exchange.client_ip, now \div 60)
    IN  /\ after <= rate_limit
        /\ IF before >= rate_limit
           THEN /\ "retry_after" \in DOMAIN exchange.response
                /\ exchange.response.error =
                       "Rate limit exceeded. Maximum 10 requests per minute."
                /\ after = before
                /\ cache' = cache
           ELSE /\ "retry_after" \notin DOMAIN exchange.response
                /\ after = before + 1
        /\ \A other \in Clients \ {exchange.client_ip} :
              C25_Windows(request_counts', other) = C25_Windows(request_counts, other)

C25_AtMostTenPerWindow == [][now' = now => C25_RequestStep]_vars

\* A client is turned away at ten admitted requests of the window while
\* the other client has been admitted fewer times in the same window.
C25_Witness ==
    /\ served # << >>
    /\ "retry_after" \in DOMAIN served[1].response
    /\ C25_Count(request_counts, served[1].client_ip, now \div 60) = rate_limit
    /\ \E other \in Clients \ {served[1].client_ip} :
          C25_Count(request_counts, other, now \div 60) \in 1..(rate_limit - 1)

\* ---------------------------------------------------------------------
\* C30: process_sizing_request stores only a successful engine result in
\* the cache.  A request that is rate-limited, fails validation or whose
\* engine call raises leaves the cache as it was; a cache hit leaves it as
\* it was too, the stored entry keeps cached = False; a fresh result is
\* stored under the key of the request and nothing else changes.
\* ---------------------------------------------------------------------
C30_RequestStep ==
    LET exchange == served'[1]
    IN  IF "cached" \in DOMAIN exchange.response /\ ~exchange.response.cached
        THEN \E cache_key \in get_cache_key(exchange.request.height.value,
                                             exchange.request.weight.value,
                                             exchange.request.fit,
                                             exchange.request.unit) :
                cache' = (cache_key :> exchange.response) @@ cache
        ELSE /\ cache' = cache
             /\ \A cache_key \in DOMAIN cache' : ~cache'[cache_key].cached

C30_OnlyEngineResultsStored == [][now' = now => C30_RequestStep]_vars

\* The latest request was answered from an entry stored earlier, and the
\* entry still says cached = False.
C30_Witness ==
    /\ served # << >>
    /\ "cached" \in DOMAIN served[1].response
    /\ served[1].response.cached
    /\ \E cache_key \in DOMAIN cache :
          /\ ~cache[cache_key].cached
          /\ cache[cache_key].timestamp = served[1].response.timestamp
          /\ cache[cache_key].timestamp < now


\* ---------------------------------------------------------------------
\* C26: with the requests of one client handled concurrently, the read and
\* the increment of the window counter interleaved, no more than
\* rate_limit (10) requests are admitted in the window, and once no thread
\* is inside check_rate_limit the stored counter equals the number admitted.
\* ---------------------------------------------------------------------
C26_CounterMatchesAdmitted ==
    /\ admitted <= rate_limit
    /\ threads = NoThreads =>
          C25_Count(request_counts, "10.0.0.1", now \div 60) = admitted


\* ---------------------------------------------------------------------
\* C27: get_role_based_recommendation returns without raising for every
\* WeddingRole and every WeddingStyle, given positive height and weight.
\* ---------------------------------------------------------------------
C27_EveryRoleAndStyleReturns ==
    \A i \in 1..Len(calls) :
        (/\ member.role \in WeddingRole
         /\ wedding.style \in WeddingStyle
         /\ RLess(Rat(0, 1), member.height)
         /\ RLess(Rat(0, 1), member.weight))
        => calls[i].status = "returned"


\* ---------------------------------------------------------------------
\* C23: priority_order of _optimize_bulk_order is an ordering of the whole
\* party (of members with different names, one groom, several or none):
\* every member is listed exactly once; with a groom in the party
\* the first entry is a groom with priority 1; the entries after it have
\* priority 2 and come by non-increasing member count of their size group.
\* ---------------------------------------------------------------------
C23_DistinctNames ==
    \A i, j \in 1..Len(members) : members[i].name = members[j].name => i = j

C23_PriorityOrderCoversParty ==
    (analysis.status = "returned" /\ C23_DistinctNames) =>
        LET recs == analysis.member_recommendations
            order == analysis.bulk_order_optimization.priority_order
            grooms == {i \in 1..Len(recs) : recs[i].member.role = "groom"}
            rest == IF grooms = {} THEN 1 ELSE 2
        IN  /\ Len(order) = Len(recs)
            /\ \A i \in 1..Len(recs) :
                  Cardinality({k \in 1..Len(order) : order[k].member = recs[i].member.name})
                  = Cardinality({j \in 1..Len(recs) : recs[j].member.name = recs[i].member.name})
            /\ grooms # {} =>
                  /\ order[1].priority = 1
                  /\ \E i \in grooms : order[1].member = recs[i].member.name
            /\ \A k \in rest..Len(order) : order[k].priority = 2
            /\ \A k \in rest..(Len(order) - 1) :
                  order[k].group_size >= order[k + 1].group_size

\* ---------------------------------------------------------------------
\* C28: every recommendation get_role_based_recommendation returns has a
\* confidence of at least 0.75, and of at least 0.85 for a groom.  On the
\* party made of the member the low-confidence penalty of
\* _calculate_practical_fitting is not applied (the score stays 0.85), a
\* groom gets the bonus of _calculate_role_hierarchy (0.95), and
\* 'Groom sizing has low confidence' is not among the recommendations.
\* ---------------------------------------------------------------------
C28_Party(i) == <<[member |-> member, recommendation |-> calls[i].enhanced]>>

C28_ConfidenceFloor ==
    \A i \in 1..Len(calls) :
        calls[i].status = "returned" =>
            /\ calls[i].enhanced.confidence >= 75
            /\ _calculate_practical_fitting(C28_Party(i)) = 85
            /\ \A k \in DOMAIN _generate_coordination_recommendations(
                                    C28_Party(i), wedding.style) :
                  _generate_coordination_recommendations(
                      C28_Party(i), wedding.style)[k].text
                  # "Groom sizing has low confidence"
            /\ member.role = "groom" =>
                  /\ calls[i].enhanced.confidence >= 85
                  /\ _calculate_role_hierarchy(C28_Party(i)) = 95

\* A groomsman gets exactly 0.75 and, in another run, a groom exactly 0.85
C28_Witness ==
    \E i \in 1..Len(calls) :
        /\ calls[i].status = "returned"
        /\ member.role = "groom"
        /\ calls[i].enhanced.confidence = 85

C28_LowestConfidence ==
    \E i \in 1..Len(calls) :
        /\ calls[i].status = "returned"
        /\ calls[i].enhanced.confidence = 75


\* ---------------------------------------------------------------------
\* C22: _calculate_practical_fitting returns 0.85, less 0.15 if the size
\* range is above 6, else less 0.10 if above 4, else less 0.05 if above 2,
\* and less a further 0.10 if more than 30% of the members have a
\* confidence below 0.7, never below 0; for the sizes 42, 42, 44, 46, 50
\* with no low-confidence member it returns 0.70.
\* ---------------------------------------------------------------------
C22_Sizes == [i \in 1..Len(member_recs) |-> int(FirstTwo(member_recs[i].recommendation.size))]

C22_Low == {i \in 1..Len(member_recs) : member_recs[i].recommendation.confidence < 70}

C22_Range ==
    IF member_recs = << >> THEN 0
    ELSE SetMax({C22_Sizes[i] : i \in 1..Len(member_recs)})
         - SetMin({C22_Sizes[i] : i \in 1..Len(member_recs)})

C22_PracticalFittingByRule ==
    "practical_fitting" \in DOMAIN analysis =>
        /\ analysis.practical_fitting >= 0
        /\ analysis.practical_fitting =
              85 - (IF C22_Range > 6 THEN 15
                    ELSE IF C22_Range > 4 THEN 10
                    ELSE IF C22_Range > 2 THEN 5 ELSE 0)
                 - (IF 100 * Cardinality(C22_Low) > 30 * Len(member_recs) THEN 10 ELSE 0)
        /\ (C22_Sizes = <<42, 42, 44, 46, 50>> /\ C22_Low = {})
              => analysis.practical_fitting = 70

C22_Witness ==
    /\ "practical_fitting" \in DOMAIN analysis
    /\ C22_Sizes = <<42, 42, 44, 46, 50>>
    /\ C22_Low = {}
    /\ analysis.practical_fitting = 70

\* ---------------------------------------------------------------------
\* C24: _identify_fitting_challenges flags a member's height exactly when
\* the height in centimetres is below 160 or above 200, and the weight
\* exactly when the weight in kilograms is below 55 or above 120, for
\* members measured in inches and pounds as for metric ones; it flags a
\* size exactly when it differs from the median of the sizes by more
\* than 3.
\* ---------------------------------------------------------------------
C24_Flagged(i, text) ==
    \E k \in 1..Len(analysis.fitting_challenges) :
        /\ analysis.fitting_challenges[k].member = member_recs[i].member.name
        /\ analysis.fitting_challenges[k].text = text

C24_FlagsByMetricMeasurements ==
    "fitting_challenges" \in DOMAIN analysis =>
        \A i \in 1..Len(member_recs) :
            LET person == member_recs[i].member
                height_cm == to_height_cm(person.height, person.unit)
                weight_kg == to_weight_kg(person.weight, person.unit)
            IN  /\ C24_Flagged(i, "Extreme height")
                      <=> (RLess(height_cm, Rat(160, 1)) \/ RLess(Rat(200, 1), height_cm))
                /\ C24_Flagged(i, "Extreme weight")
                      <=> (RLess(weight_kg, Rat(55, 1)) \/ RLess(Rat(120, 1), weight_kg))
                /\ C24_Flagged(i, "Size is significantly different from group average")
                      <=> abs(2 * C22_Sizes[i] - doubled_median(C22_Sizes)) > 6


\* ---------------------------------------------------------------------
\* C29: a KCTWeddingOrder is PENDING with kct_order_number None from
\* create_wedding_order until submit_order_to_kct.  Creation adds an order
\* with one item per group member, in member order, and no order number
\* (so /api/wedding/group/create reports kct_order_id None) and leaves the
\* other orders alone; afterwards an order changes only by getting its
\* number together with status CONFIRMED, and never turns back to PENDING.
\* ---------------------------------------------------------------------
C29_PendingWithoutNumber ==
    \A k \in 1..Len(orders) :
        /\ orders[k].status \in {"pending", "confirmed"}
        /\ orders[k].status = "pending" <=> orders[k].kct_order_number = << >>

C29_Step ==
    /\ \A k \in 1..Len(orders) :
          /\ k \in 1..Len(orders')
          /\ \/ orders'[k] = orders[k]
             \/ /\ orders'[k] = [orders[k] EXCEPT !.status = "confirmed",
                                                   !.kct_order_number = orders'[k].kct_order_number]
                /\ orders'[k].kct_order_number # << >>
          /\ orders[k].status = "confirmed" => orders'[k].status = "confirmed"
    /\ \A k \in (Len(orders) + 1)..Len(orders') :
          /\ k = Len(orders) + 1
          /\ orders'[k].status = "pending"
          /\ orders'[k].kct_order_number = << >>
          /\ create_wedding_group(orders'[k], members).kct_order_id = << >>
          /\ Len(orders'[k].items) = Len(members)
          /\ \A i \in 1..Len(members) :
                orders'[k].items[i].member_name = members[i].name

C29_PendingUntilSubmitted == [](C29_PendingWithoutNumber) /\ [][C29_Step]_vars

\* Of two orders of a party the first has been submitted and the second,
\* created after another member joined, has not.
C29_Witness ==
    /\ Len(orders) = 2
    /\ orders[1].status = "confirmed"
    /\ orders[1].kct_order_number # << >>
    /\ Len(orders[1].items) = 1
    /\ orders[2].status = "pending"
    /\ orders[2].kct_order_number = << >>
    /\ Len(orders[2].items) = 2

====
